---- MODULE Spec2Model ----
(***************************************************************************)
(* Orchestrix API: metric ingestion, alert-rule evaluation and the         *)
(* workflow trigger bridge, modelled as interleaved request tasks over a   *)
(* shared SQL store and an external workflow engine.                       *)
(*                                                                         *)
(* Every store call and every engine call of a handler is one atomic step  *)
(* of the task that runs the handler; tasks interleave between the calls.  *)
(* Row ids produced by the store (uuid_generate_v4 column defaults) are    *)
(* the positions 1, 2, ... in the table; ids produced by uuid.New() in the *)
(* services are the negative numbers, so the two never coincide.           *)
(*                                                                         *)
(* The store is reached as the database user cmd/api/main.go defaults to,  *)
(* a superuser, for which the row level security policies filter nothing:  *)
(* a query sees every tenant's rows whatever the tenant binding is.        *)
(***************************************************************************)
EXTENDS Integers, Sequences, FiniteSets, TLC

\* ---------------------------------------------------------------- bounds
\* operations of each kind that clients start in one behaviour
MaxEvals == 1
MaxCooldownEvals == 2
MaxExecutes == 1
MaxCancels == 1
MaxAlertOps == 3
MaxIngests == 2
MaxBridgeCalls == 1
MaxRuleUpdates == 1
MaxLinkOps == 2
MaxDefinitionCreates == 2
MaxAuditedOps == 2
MaxFaultEvals == 1
MaxStarts == 2
MaxWorkflowOps == 2
MaxTime == 2
NumConns == 2

\* ------------------------------------------------------ program constants
\* MetricService: the maximum number of metrics in a single batch
MaxBatchSize == 10000

Tenants == {"tA", "tB"}
WorkflowIds == {"w1", "w2", "w3"}
RuleIds == {"r1"}
MetricNames == {"cpu", "mem"}
Values == {1, 2}
Conns == 1..NumConns

NoTenant == "none"
NoWf == "none"
NoRule == "none"
NoTwid == <<>>
UserIds == {1}
Cooldowns == {2}
Thresholds == {1}
\* batches a caller submits, none of them empty: names and values in arrival
\* order
BatchInputs ==
    {<<[name |-> "cpu", val |-> 2], [name |-> "cpu", val |-> 1]>>,
     <<[name |-> "cpu", val |-> 1], [name |-> "mem", val |-> 2]>>}
\* a batch of one sample more than MetricService accepts
BigBatch == [i \in 1..(MaxBatchSize + 1) |-> [name |-> "cpu", val |-> 1]]
\* batches posted to the metrics handler: as above, one with a sample that
\* has no name, and the oversized one
HandlerBatchInputs ==
    BatchInputs \cup {<<[name |-> "", val |-> 1], [name |-> "cpu", val |-> 2]>>, BigBatch}
\* the inserts of one handler request that the store fails: none, the first
\* or the last
InsertFailures(batch) == {{}, {1}, {Len(batch)}}
NoTime == -1
\* a rule update that names no cooldown_seconds
NoCooldown == -1
\* what a request to update a rule asks for: disable it, or enable it with a
\* cooldown of one second
RuleEdits ==
    {[enabled |-> FALSE, cooldown |-> NoCooldown], [enabled |-> TRUE, cooldown |-> 1]}
NoEdit == [enabled |-> FALSE, cooldown |-> NoCooldown]
\* a field that the input of WorkflowService.Update leaves nil
NotGiven == "nil"
NoId == 0
\* alert title templates: plain text, "CPU ${value}%", and a text with an
\* action that is never closed
TitleTemplates == {<<"lit">>, <<"lit", "var">>, <<"var", "open">>}

\* the title template the schema gives as its example: text with ${value}
ExampleTitle == <<"lit", "var">>

\* the statements of the evaluators that the store can refuse for a rule
StoreFaultKinds == {"CreateAlert", "UpdateAlertRuleLastTriggered"}

\* what the definition of a workflow can hold: nothing, an object without
\* the key steps, steps null, steps an empty array, steps with a step, and
\* bytes that are not JSON
DefinitionShapes == {"none", "absent", "null", "empty", "steps", "invalid"}

\* a rule without trigger_input_template, and the input a caller leaves out
NoTemplate == [json |-> TRUE, text |-> <<>>]
NoInput == <<"nil">>
\* the input the bridge builds itself: alert_id, rule_id, metric_name, value
DefaultInput == <<"alert_id", "rule_id", "metric_name", "value">>
\* trigger_input_template values: none, bytes that are not a JSON object, and
\* objects with one string made of a literal, a ${variable} and, in the last,
\* a template action that is never closed
TriggerInputTemplates ==
    {NoTemplate,
     [json |-> FALSE, text |-> <<"lit">>],
     [json |-> TRUE, text |-> <<"lit", "var">>],
     [json |-> TRUE, text |-> <<"var", "open">>]}

VARIABLES now, workflows, alertDefault, rules, alerts, executions, metrics, engine,
          connBinding, storeOps, tasks, definitions, auditLogs, auditUp, storeFaults

vars == <<now, workflows, alertDefault, rules, alerts, executions, metrics, engine,
          connBinding, storeOps, tasks, definitions, auditLogs, auditUp, storeFaults>>

\* ------------------------------------------------------------ domain code

\* ExecutionStatus constants
ExecutionStatuses == {"pending", "running", "completed", "failed", "cancelled"}

\* Execution.IsTerminal
IsTerminal(status) == status \in {"completed", "failed", "cancelled"}

\* Execution.CanCancel
CanCancelUnlessCancelled(status) == status # "cancelled"

CanCancel(status) == status \in {"pending", "running"}

\* Workflow.CanExecute
CanExecute(wf) == wf.status = "active"

\* Workflow.ParseDefinition: no definition at all parses to one without steps
ParseDefinition(definition) ==
    [err |-> definition = "invalid",
     steps |-> IF definition = "steps" THEN 1 ELSE 0]

\* Workflow.HasDynamicDefinition
HasDynamicDefinition(definition) ==
    ~ParseDefinition(definition).err /\ ParseDefinition(definition).steps > 0

\* triggerWorkflow, "Check if workflow has a dynamic definition": the key
\* steps is there and its value is not null
BridgeEntrypoint(definition) ==
    IF definition \in {"empty", "steps"} THEN "DynamicWorkflow" ELSE "ProcessWorkflow"

\* CanAcknowledge with the status list of CanResolve
CanAcknowledgeLikeResolve(status) == status \in {"open", "triggered", "acknowledged"}

\* Alert.CanAcknowledge
CanAcknowledge(status) == status \in {"open", "triggered"}

\* Alert.CanResolve
CanResolve(status) == status \in {"open", "triggered", "acknowledged"}

\* CanTrigger without its cooldown comparison
CanTriggerWithoutCooldown(rule, t) == rule.enabled

\* AlertRule.CanTrigger: time.Since(last) >= cooldown, evaluated at time t
CanTrigger(rule, t) ==
    IF ~rule.enabled THEN FALSE
    ELSE IF rule.last = NoTime THEN TRUE
    ELSE t - rule.last >= rule.cooldown

\* AlertRule.EvaluateThreshold (operator table of the domain entity)
EvaluateThreshold(rule, value) ==
    IF rule.conditionType # "threshold" THEN [err |-> TRUE, hit |-> FALSE]
    ELSE CASE rule.operator = "gt"  -> [err |-> FALSE, hit |-> value > rule.threshold]
           [] rule.operator = "gte" -> [err |-> FALSE, hit |-> value >= rule.threshold]
           [] rule.operator = "lt"  -> [err |-> FALSE, hit |-> value < rule.threshold]
           [] rule.operator = "lte" -> [err |-> FALSE, hit |-> value <= rule.threshold]
           [] rule.operator = "eq"  -> [err |-> FALSE, hit |-> value = rule.threshold]
           [] rule.operator = "neq" -> [err |-> FALSE, hit |-> value # rule.threshold]
           [] OTHER -> [err |-> TRUE, hit |-> FALSE]

\* Evaluator.evaluateRule (operator table of the alertrule package)
evaluateRule(rule, name, value) ==
    IF rule.metricName # name THEN FALSE
    ELSE CASE rule.operator = "gt"  -> value > rule.threshold
           [] rule.operator = "gte" -> value >= rule.threshold
           [] rule.operator = "lt"  -> value < rule.threshold
           [] rule.operator = "lte" -> value <= rule.threshold
           [] rule.operator = "eq"  -> value = rule.threshold
           [] rule.operator = "ne"  -> value # rule.threshold
           [] OTHER -> FALSE

\* Evaluator.renderTemplate: ${var} becomes {{.var}}, the text is parsed and
\* executed; an action that is never closed does not parse
renderTemplate(text) ==
    IF \E i \in DOMAIN text : text[i] = "open"
    THEN [err |-> TRUE, out |-> <<>>]
    ELSE [err |-> FALSE,
          out |-> [i \in DOMAIN text |-> IF text[i] = "var" THEN "value" ELSE text[i]]]

\* Evaluator.renderInputTemplate on the one string of the object: a string
\* that does not render is taken as it is
renderInputTemplate(text) ==
    IF renderTemplate(text).err THEN text ELSE renderTemplate(text).out

\* triggerAlert, "Render alert title": the raw template when it does not render
AlertTitle(rule) ==
    IF renderTemplate(rule.titleTemplate).err THEN rule.titleTemplate
    ELSE renderTemplate(rule.titleTemplate).out

\* triggerWorkflow, "Build workflow input from template": a template that is
\* empty or does not unmarshal leaves the default input
BuildWorkflowInput(template) ==
    IF template.text # <<>> /\ template.json THEN renderInputTemplate(template.text)
    ELSE DefaultInput

\* ------------------------------------------------------------- store code

\* every ordering of a finite set as a sequence (rows come back in an
\* order the query fixes only up to ties)
Orderings(S) ==
    {s \in [1..Cardinality(S) -> S] : \A i, j \in 1..Cardinality(S) : i # j => s[i] # s[j]}

\* ListEnabledAlertRules: tenant_id = $1 AND enabled = true
ListEnabledAlertRules(tenant) ==
    {r \in DOMAIN rules : rules[r].tenant = tenant /\ rules[r].enabled}

\* GetAlertRulesForMetric: the cooldown filter is part of the query
GetAlertRulesForMetric(tenant, name) ==
    {r \in DOMAIN rules : /\ rules[r].tenant = tenant
                        /\ rules[r].enabled
                        /\ rules[r].conditionType = "metric_threshold"
                        /\ rules[r].metricName = name
                        /\ (rules[r].last = NoTime
                            \/ rules[r].last < now - rules[r].cooldown)}

\* the rules GetAlertRulesForMetric leaves out only because of its cooldown filter
HeldByCooldown(tenant, name) ==
    {r \in DOMAIN rules : /\ rules[r].tenant = tenant
                        /\ rules[r].enabled
                        /\ rules[r].conditionType = "metric_threshold"
                        /\ rules[r].metricName = name
                        /\ r \notin GetAlertRulesForMetric(tenant, name)}

\* a rule update that writes the whole row from the caller's copy
UpdateAlertRuleReplacingRow(r, tenant, enabled, cooldown) ==
    IF rules[r].tenant = tenant
    THEN [rules EXCEPT ![r].enabled = enabled, ![r].cooldown = cooldown,
                       ![r].last = NoTime]
    ELSE rules

\* UpdateAlertRule: SET enabled = COALESCE($5, enabled), ..., cooldown_seconds
\* = COALESCE($13, cooldown_seconds) WHERE id = $1 AND tenant_id = $2; the
\* statement does not name last_triggered_at
UpdateAlertRule(r, tenant, enabled, cooldown) ==
    IF rules[r].tenant = tenant
    THEN [rules EXCEPT ![r].enabled = enabled, ![r].cooldown = cooldown]
    ELSE rules

\* UpdateAlertRuleLastTriggered: SET last_triggered_at = NOW() WHERE id = $1
UpdateAlertRuleLastTriggered(r) ==
    [rules EXCEPT ![r].last = now]

\* CreateExecution: INSERT ... RETURNING *; the id is the column default, and
\* completed_at, which the statement does not name, is null
CreateExecution(tenant, wf, twid, triggeredBy, by) ==
    Append(executions, [tenant |-> tenant, workflow |-> wf, twid |-> twid,
                        runId |-> NoId, status |-> "pending", error |-> "",
                        triggeredBy |-> triggeredBy, startedAt |-> NoTime,
                        completedAt |-> NoTime, deleted |-> FALSE, by |-> by])

\* UpdateExecutionStatus: SET status = $2, error = $3 WHERE id = $1
UpdateExecutionStatus(id, status, error) ==
    [e \in DOMAIN executions |->
        IF e = id /\ ~executions[e].deleted
        THEN [executions[e] EXCEPT !.status = status, !.error = error]
        ELSE executions[e]]

\* an update of the run id and the status that leaves started_at alone
UpdateExecutionRunIDOnly(id, runId, status) ==
    [e \in DOMAIN executions |->
        IF e = id /\ ~executions[e].deleted
        THEN [executions[e] EXCEPT !.runId = runId, !.status = status]
        ELSE executions[e]]

\* UpdateExecutionRunID: SET temporal_run_id, status, started_at WHERE id = $1
UpdateExecutionRunID(id, runId, status) ==
    [e \in DOMAIN executions |->
        IF e = id /\ ~executions[e].deleted
        THEN [executions[e] EXCEPT !.runId = runId, !.status = status,
                                   !.startedAt = now]
        ELSE executions[e]]

\* the default of alerts.status in the schema the store was created from:
\* 'open' in 001_initial_schema, 'triggered' in the schema of the tests
AlertInitialStatuses == {"open", "triggered"}

\* an insert that keeps one alert per rule: a later alert of the rule takes
\* the row of the earlier one
CreateAlertKeyedByRule(tenant, title, rule, severity, by) ==
    LET row == [tenant |-> tenant, title |-> title, rule |-> rule, severity |-> severity,
                status |-> alertDefault, ackBy |-> NoId, ackAt |-> NoTime,
                resBy |-> NoId, resAt |-> NoTime, execId |-> NoId, by |-> by]
    IN IF \E a \in DOMAIN alerts : alerts[a].rule = rule
       THEN [a \in DOMAIN alerts |-> IF alerts[a].rule = rule THEN row ELSE alerts[a]]
       ELSE Append(alerts, row)

\* CreateAlert: INSERT ... RETURNING *; the statement names no status, so the
\* row carries the column default
CreateAlert(tenant, title, rule, severity, by) ==
    Append(alerts, [tenant |-> tenant, title |-> title, rule |-> rule,
                    severity |-> severity,
                    status |-> alertDefault, ackBy |-> NoId, ackAt |-> NoTime,
                    resBy |-> NoId, resAt |-> NoTime,
                    execId |-> NoId, by |-> by])

\* an acknowledge that writes the row back from a copy without the link to
\* the execution
AcknowledgeAlertReplacingRow(id, user) ==
    [a \in DOMAIN alerts |->
        IF a = id THEN [alerts[a] EXCEPT !.status = "acknowledged", !.ackBy = user,
                                         !.ackAt = now, !.execId = NoId]
        ELSE alerts[a]]

\* AcknowledgeAlert: SET status = 'acknowledged', acknowledged_at = NOW(),
\* acknowledged_by = $2 WHERE id = $1
AcknowledgeAlert(id, user) ==
    [a \in DOMAIN alerts |->
        IF a = id THEN [alerts[a] EXCEPT !.status = "acknowledged", !.ackBy = user,
                                         !.ackAt = now]
        ELSE alerts[a]]

\* ResolveAlert: SET status = 'resolved', resolved_at = NOW(), resolved_by = $2
\* WHERE id = $1
ResolveAlert(id, user) ==
    [a \in DOMAIN alerts |->
        IF a = id THEN [alerts[a] EXCEPT !.status = "resolved", !.resBy = user,
                                         !.resAt = now]
        ELSE alerts[a]]

\* UpdateAlertTriggeredExecution: SET triggered_workflow_execution_id WHERE
\* id = $1; the column REFERENCES executions(id), so the statement fails when
\* the execution row is gone
UpdateAlertTriggeredExecution(id, exec) ==
    [a \in DOMAIN alerts |->
        IF a = id /\ ~executions[exec].deleted
        THEN [alerts[a] EXCEPT !.execId = exec] ELSE alerts[a]]

\* DeleteWorkflow: DELETE FROM workflows WHERE id = $1, on the three tables
\* that reference the row: executions.workflow_id ON DELETE CASCADE,
\* alerts.triggered_workflow_execution_id ON DELETE SET NULL,
\* alert_rules.trigger_workflow_id ON DELETE SET NULL
ExecutionsOfWorkflow(w) ==
    {e \in DOMAIN executions : executions[e].workflow = w /\ ~executions[e].deleted}

DeleteWorkflowExecutions(w) ==
    [e \in DOMAIN executions |->
        IF e \in ExecutionsOfWorkflow(w) THEN [executions[e] EXCEPT !.deleted = TRUE]
        ELSE executions[e]]

DeleteWorkflowAlerts(w) ==
    [a \in DOMAIN alerts |->
        IF alerts[a].execId \in ExecutionsOfWorkflow(w)
        THEN [alerts[a] EXCEPT !.execId = NoId] ELSE alerts[a]]

DeleteWorkflowRules(w) ==
    [r \in DOMAIN rules |->
        IF rules[r].workflow = w THEN [rules[r] EXCEPT !.workflow = NoWf] ELSE rules[r]]

\* GetMetricDefinition: WHERE tenant_id = $1 AND name = $2
GetMetricDefinition(tenant, name) ==
    {d \in definitions : d.tenant = tenant /\ d.name = name}

\* CreateMetricDefinition as MetricDefinitionRepository.Save runs it: a plain
\* INSERT, which UNIQUE(tenant_id, name) refuses when the pair is stored
CreateMetricDefinition(tenant, name, by) ==
    IF GetMetricDefinition(tenant, name) # {} THEN definitions
    ELSE definitions \cup {[tenant |-> tenant, name |-> name, by |-> by]}

\* CreateMetricDefinition as metrics.Handler runs it: INSERT ... ON CONFLICT
\* (tenant_id, name) DO UPDATE SET the columns of the request
CreateMetricDefinitionOnConflictUpdate(tenant, name, by) ==
    (definitions \ GetMetricDefinition(tenant, name))
        \cup {[tenant |-> tenant, name |-> name, by |-> by]}

\* AuditService.Log from a service's logAudit: auditRepo.Save runs
\* CreateAuditLog, and logAudit drops the error Log returns
logAudit(tenant, event, resourceType, resource) ==
    IF auditUp
    THEN auditLogs \cup {[tenant |-> tenant, event |-> event,
                          resourceType |-> resourceType, resource |-> resource]}
    ELSE auditLogs

\* a service that hands the error of AuditService.Log to its caller
ReturnAuditError(result) == IF auditUp THEN result ELSE "auditErr"

\* what a service returns after logAudit: its own outcome, whatever
\* AuditService.Log returned
ReturnAfterAudit(result) == result

\* uuid.New() in a service: never equal to a row id the store generated
NewUUID(t) == 0 - t

\* ------------------------------------------------------------------ tasks

\* what a task remembers of the row it loaded (FindByID)
NoSnap == [status |-> "", twid |-> NoTwid, error |-> ""]

IdleTask ==
    [kind |-> "idle", pc |-> "idle", tenant |-> NoTenant, name |-> "", val |-> 0,
     queue |-> <<>>, todo |-> <<>>, alert |-> NoId, exec |-> NoId, wf |-> NoWf,
     rule |-> NoRule, target |-> NoId, user |-> NoId, snap |-> NoSnap,
     ok |-> FALSE, src |-> NoId, seen |-> {}, total |-> 0, inserted |-> 0,
     edit |-> NoEdit,
     cancelled |-> FALSE, result |-> ""]

TaskIds == DOMAIN tasks

\* what an evaluation decided about one rule: when, on which copy of the
\* rule's last_triggered_at, whether the threshold was met, whether it fired
Decision(rule, sawLast, hit, fired) ==
    [rule |-> rule, at |-> now, sawLast |-> sawLast, hit |-> hit, fired |-> fired]

\* operations of the given kinds that clients have started (goroutines a
\* handler spawned are not counted)
Started(kinds) ==
    Cardinality({t \in TaskIds : tasks[t].kind \in kinds /\ tasks[t].src = NoId})

Init ==
    /\ now = 0
    /\ workflows = [w \in WorkflowIds |->
            CASE w = "w1" -> [tenant |-> "tA", status |-> "active", version |-> 1,
                              definition |-> "steps"]
              [] w = "w2" -> [tenant |-> "tB", status |-> "active", version |-> 1,
                              definition |-> "steps"]
              [] w = "w3" -> [tenant |-> "tA", status |-> "draft", version |-> 1,
                              definition |-> "none"]]
    /\ \E wf \in WorkflowIds \cup {NoWf}, ct \in {"threshold", "metric_threshold"},
          cd \in Cooldowns, th \in Thresholds, tpl \in TriggerInputTemplates :
          rules = [r \in RuleIds |->
                     [id |-> r, tenant |-> "tA", enabled |-> TRUE,
                      conditionType |-> ct, metricName |-> "cpu",
                      operator |-> "gt", threshold |-> th,
                      severity |-> "critical", cooldown |-> cd,
                      workflow |-> wf, template |-> tpl,
                      titleTemplate |-> ExampleTitle, last |-> NoTime]]
    /\ alertDefault \in AlertInitialStatuses
    /\ alerts = <<>>
    /\ executions = <<>>
    /\ metrics = {}
    /\ engine = [started |-> <<>>, cancelled |-> {}]
    /\ connBinding = [c \in Conns |-> NoTenant]
    /\ storeOps = {}
    /\ tasks = <<>>
    /\ definitions = {}
    /\ auditLogs = {}
    /\ auditUp \in BOOLEAN
    /\ storeFaults = {}

\* ------------------------------------------------------------ tenant gate

\* set_config with is_local = false: the setting stays on the connection
SetTenantContextForSession(c, tenant) == [connBinding EXCEPT ![c] = tenant]

\* set_config('app.current_tenant_id', $1, true) run by pool.Exec on
\* connection c: the statement is its own transaction and the third argument
\* makes the setting local to it, so the session value of c is what it was
SetTenantContext(c, tenant) == connBinding

\* the tenants of the other requests that have made their binding and not
\* yet done the store operation it was made for
Binders(t) ==
    {tasks[u].tenant : u \in {x \in TaskIds \ {t} : tasks[x].pc = "save"}}

\* ----------------------------------------------------------------- helpers

\* a handler returns: its locals are gone, its arguments and the outcome are
\* what remains
Finish(task, result) ==
    [IdleTask EXCEPT !.kind = task.kind, !.pc = "done", !.tenant = task.tenant,
                     !.target = task.target, !.total = task.total,
                     !.src = task.src, !.seen = task.seen,
                     !.cancelled = task.cancelled, !.result = result]

\* the evaluator moves on to the next rule of its list
NextRule(task) ==
    [task EXCEPT !.pc = "loop", !.todo = Tail(task.todo), !.rule = NoRule,
                 !.alert = NoId, !.exec = NoId, !.wf = NoWf, !.ok = FALSE]

\* WorkflowService.Execute returns: to the HTTP caller, or into the loop of
\* AlertRuleService.Evaluate, which ignores the result
ReturnFromExecute(task, result) ==
    IF task.kind = "execute" THEN Finish(task, result)
    ELSE [NextRule(task) EXCEPT !.result = result]

\* a loop that stops at the first rule whose handling failed
ReturnAborting(task, result) == Finish(task, result)

\* a loop that goes on to the update of last_triggered_at after a failure
ReturnToUpdate(task, result) ==
    [task EXCEPT !.pc = "updLast", !.rule = Head(task.todo).id, !.result = result]

\* triggerAlert / alertService.Create returns a failure into the loop over
\* the rules, which logs it (or not) and goes on with the next rule
ReturnFromTriggerAlert(task, result) ==
    [NextRule(task) EXCEPT !.result = result]

\* triggerWorkflow returns: into triggerAlert, which logs the error and goes on
ReturnFromBridge(task, result) ==
    IF task.kind = "bridge" THEN Finish(task, result)
    ELSE [NextRule(task) EXCEPT !.result = result]

\* ---------------------------------------------- Evaluator (package alertrule)

\* Evaluator.EvaluateMetric is called
EvaluateMetric(tenant, name, val) ==
    /\ tasks' = Append(tasks,
                   [IdleTask EXCEPT !.kind = "evalLegacy", !.pc = "find",
                                    !.tenant = tenant, !.name = name, !.val = val])
    /\ UNCHANGED <<now, workflows, alertDefault, rules, alerts, executions, metrics, engine,
                   connBinding, storeOps, definitions, auditLogs, auditUp, storeFaults>>

\* EvaluateMetric: queries.GetAlertRulesForMetric
LegacyFind(t) ==
    /\ tasks[t].kind = "evalLegacy" /\ tasks[t].pc = "find"
    /\ \E order \in Orderings(GetAlertRulesForMetric(tasks[t].tenant, tasks[t].name)) :
          tasks' = [tasks EXCEPT ![t].pc = "loop",
                                 ![t].todo = [i \in DOMAIN order |-> rules[order[i]]],
                                 ![t].seen = @ \cup
                                     {Decision(r, rules[r].last,
                                               evaluateRule(rules[r], tasks[t].name,
                                                            tasks[t].val), FALSE) :
                                        r \in HeldByCooldown(tasks[t].tenant,
                                                             tasks[t].name)}]
    /\ UNCHANGED <<now, workflows, alertDefault, rules, alerts, executions, metrics, engine,
                   connBinding, storeOps, definitions, auditLogs, auditUp, storeFaults>>

\* EvaluateMetric loop: evaluateRule, then triggerAlert up to queries.CreateAlert
LegacyLoop(t) ==
    /\ tasks[t].kind = "evalLegacy" /\ tasks[t].pc = "loop"
    /\ IF tasks[t].todo = <<>>
       THEN /\ tasks' = [tasks EXCEPT ![t] = Finish(tasks[t], "ok")]
            /\ UNCHANGED alerts
       ELSE LET rule == Head(tasks[t].todo) IN
            IF evaluateRule(rule, tasks[t].name, tasks[t].val)
            THEN IF <<"CreateAlert", rule.id>> \in storeFaults
                 THEN /\ tasks' = [tasks EXCEPT ![t] =
                                     ReturnFromTriggerAlert(
                                        [tasks[t] EXCEPT !.seen = @ \cup
                                           {Decision(rule.id, rule.last, TRUE, FALSE)}],
                                        "createAlertErr")]
                      /\ UNCHANGED alerts
                 ELSE /\ alerts' = CreateAlert(tasks[t].tenant, AlertTitle(rule), rule.id,
                                                rule.severity, t)
                      /\ tasks' = [tasks EXCEPT ![t].pc = "updLast", ![t].rule = rule.id,
                                                ![t].alert = Len(alerts) + 1,
                                                ![t].seen = @ \cup
                                                  {Decision(rule.id, rule.last, TRUE, TRUE)}]
            ELSE /\ tasks' = [tasks EXCEPT ![t] =
                                [NextRule(tasks[t]) EXCEPT !.seen = @ \cup
                                   {Decision(rule.id, rule.last, FALSE, FALSE)}]]
                 /\ UNCHANGED alerts
    /\ UNCHANGED <<now, workflows, alertDefault, rules, executions, metrics, engine,
                   connBinding, storeOps, definitions, auditLogs, auditUp, storeFaults>>

\* triggerAlert: queries.UpdateAlertRuleLastTriggered, then the workflow branch
LegacyUpdLast(t) ==
    /\ tasks[t].kind = "evalLegacy" /\ tasks[t].pc = "updLast"
    /\ rules' = IF <<"UpdateAlertRuleLastTriggered", tasks[t].rule>> \in storeFaults
                THEN rules
                ELSE UpdateAlertRuleLastTriggered(tasks[t].rule)
    /\ LET rule == Head(tasks[t].todo) IN
       tasks' = [tasks EXCEPT ![t] =
                   IF rule.workflow # NoWf
                   THEN [tasks[t] EXCEPT !.pc = "twGet", !.wf = rule.workflow]
                   ELSE NextRule(tasks[t])]
    /\ UNCHANGED <<now, workflows, alertDefault, alerts, executions, metrics, engine,
                   connBinding, storeOps, definitions, auditLogs, auditUp, storeFaults>>

\* triggerWorkflow is called once more for an alert that the evaluator has
\* already handed to it, with the same rule and alert rows
triggerWorkflow(a) ==
    /\ a \in DOMAIN alerts
    /\ tasks[alerts[a].by].kind = "evalLegacy"
    /\ rules[alerts[a].rule].workflow # NoWf
    /\ tasks' = Append(tasks,
                   [IdleTask EXCEPT !.kind = "bridge", !.pc = "twGet",
                                    !.tenant = alerts[a].tenant,
                                    !.rule = alerts[a].rule, !.alert = a,
                                    !.wf = rules[alerts[a].rule].workflow])
    /\ UNCHANGED <<now, workflows, alertDefault, rules, alerts, executions, metrics, engine,
                   connBinding, storeOps, definitions, auditLogs, auditUp, storeFaults>>

\* triggerWorkflow: queries.GetWorkflow and the tenant ownership check
TwGet(t) ==
    /\ tasks[t].pc = "twGet"
    /\ tasks' = [tasks EXCEPT ![t] =
                   IF workflows[tasks[t].wf].status = "deleted"
                   THEN ReturnFromBridge(tasks[t], "getWorkflowErr")
                   ELSE IF workflows[tasks[t].wf].tenant # tasks[t].tenant
                   THEN ReturnFromBridge(tasks[t], "ErrTenantMismatch")
                   ELSE [tasks[t] EXCEPT !.pc = "twCreate"]]
    /\ UNCHANGED <<now, workflows, alertDefault, rules, alerts, executions, metrics, engine,
                   connBinding, storeOps, definitions, auditLogs, auditUp, storeFaults>>

\* triggerWorkflow: queries.CreateExecution with temporal id "alert-<alert id>";
\* the insert fails when the workflow row has been deleted meanwhile
TwCreate(t) ==
    /\ tasks[t].pc = "twCreate"
    /\ IF workflows[tasks[t].wf].status = "deleted"
       THEN /\ tasks' = [tasks EXCEPT ![t] = ReturnFromBridge(tasks[t], "createErr")]
            /\ UNCHANGED executions
       ELSE /\ executions' = CreateExecution(tasks[t].tenant, tasks[t].wf,
                                             <<"alert", tasks[t].alert>>,
                                             <<"alert_rule", tasks[t].rule>>, t)
            /\ tasks' = [tasks EXCEPT ![t].pc = "twAlert",
                                      ![t].exec = Len(executions) + 1]
    /\ UNCHANGED <<now, workflows, alertDefault, rules, alerts, metrics, engine,
                   connBinding, storeOps, definitions, auditLogs, auditUp, storeFaults>>

\* triggerWorkflow: queries.UpdateAlertTriggeredExecution
TwAlert(t) ==
    /\ tasks[t].pc = "twAlert"
    /\ alerts' = UpdateAlertTriggeredExecution(tasks[t].alert, tasks[t].exec)
    /\ tasks' = [tasks EXCEPT ![t].pc = "twEngine"]
    /\ UNCHANGED <<now, workflows, alertDefault, rules, executions, metrics, engine,
                   connBinding, storeOps, definitions, auditLogs, auditUp, storeFaults>>

\* triggerWorkflow: temporal.ExecuteWorkflow, which the engine accepts or not
TwEngine(t) ==
    /\ tasks[t].pc = "twEngine"
    /\ \E ok \in BOOLEAN :
          /\ engine' = IF ok
                       THEN [engine EXCEPT !.started =
                               Append(@, [id |-> <<"alert", tasks[t].alert>>,
                                          wf |-> tasks[t].wf,
                                          entry |-> BridgeEntrypoint(
                                                       workflows[tasks[t].wf].definition),
                                          input |-> BuildWorkflowInput(
                                                       rules[tasks[t].rule].template),
                                          by |-> t])]
                       ELSE engine
          /\ tasks' = [tasks EXCEPT ![t].pc = "twUpdate", ![t].ok = ok]
    /\ UNCHANGED <<now, workflows, alertDefault, rules, alerts, executions, metrics,
                   connBinding, storeOps, definitions, auditLogs, auditUp, storeFaults>>

\* triggerWorkflow: UpdateExecutionStatus(failed) or UpdateExecutionRunID(running)
TwUpdate(t) ==
    /\ tasks[t].pc = "twUpdate"
    /\ executions' = IF tasks[t].ok
                     THEN UpdateExecutionRunID(tasks[t].exec, t, "running")
                     ELSE UpdateExecutionStatus(tasks[t].exec, "failed",
                                                "failed to start workflow")
    /\ tasks' = [tasks EXCEPT ![t] =
                   ReturnFromBridge(tasks[t], IF tasks[t].ok THEN "ok" ELSE "startErr")]
    /\ UNCHANGED <<now, workflows, alertDefault, rules, alerts, metrics, engine,
                   connBinding, storeOps, definitions, auditLogs, auditUp, storeFaults>>

\* ------------------------------------------- AlertRuleService (core/service)

\* AlertRuleService.Evaluate is called directly
Evaluate(tenant, name, val) ==
    /\ tasks' = Append(tasks,
                   [IdleTask EXCEPT !.kind = "evalHex", !.pc = "find", !.tenant = tenant,
                                    !.queue = <<[name |-> name, val |-> val]>>])
    /\ UNCHANGED <<now, workflows, alertDefault, rules, alerts, executions, metrics, engine,
                   connBinding, storeOps, definitions, auditLogs, auditUp, storeFaults>>

\* Evaluate: ruleRepo.FindEnabledByTenant for the next (name, value) of the
\* goroutine; the goroutine ends when it has none left
HexFind(t) ==
    /\ tasks[t].kind = "evalHex" /\ tasks[t].pc = "find"
    /\ IF tasks[t].queue = <<>>
       THEN tasks' = [tasks EXCEPT ![t] = Finish(tasks[t], "ok")]
       ELSE \E order \in Orderings(ListEnabledAlertRules(tasks[t].tenant)) :
              tasks' = [tasks EXCEPT ![t].pc = "loop",
                                     ![t].name = Head(tasks[t].queue).name,
                                     ![t].val = Head(tasks[t].queue).val,
                                     ![t].queue = Tail(tasks[t].queue),
                                     ![t].todo = [i \in DOMAIN order |-> rules[order[i]]]]
    /\ UNCHANGED <<now, workflows, alertDefault, rules, alerts, executions, metrics, engine,
                   connBinding, storeOps, definitions, auditLogs, auditUp, storeFaults>>

\* Evaluate loop: CanTrigger, EvaluateThreshold, then alertService.Create
\* (SetTenantContext, alertRepo.Save and logAudit)
HexLoop(t) ==
    /\ tasks[t].kind = "evalHex" /\ tasks[t].pc = "loop"
    /\ IF tasks[t].todo = <<>>
       THEN /\ tasks' = [tasks EXCEPT ![t].pc = "find"]
            /\ UNCHANGED <<alerts, connBinding, auditLogs>>
       ELSE LET rule == Head(tasks[t].todo) IN
            IF /\ CanTrigger(rule, now) /\ EvaluateThreshold(rule, tasks[t].val).hit
               /\ <<"CreateAlert", rule.id>> \in storeFaults
            THEN /\ tasks' = [tasks EXCEPT ![t] =
                                [ReturnFromTriggerAlert(tasks[t], "createAlertErr")
                                   EXCEPT !.seen = @ \cup
                                      {Decision(rule.id, rule.last, TRUE, FALSE)}]]
                 /\ UNCHANGED <<alerts, connBinding, auditLogs>>
            ELSE IF CanTrigger(rule, now) /\ EvaluateThreshold(rule, tasks[t].val).hit
            THEN \E c \in Conns :
                   /\ connBinding' = SetTenantContext(c, tasks[t].tenant)
                   /\ alerts' = CreateAlert(tasks[t].tenant, rule.titleTemplate, rule.id,
                                            rule.severity, t)
                   /\ auditLogs' = logAudit(tasks[t].tenant, "alert.created", "alert",
                                            NewUUID(t))
                   /\ tasks' = [tasks EXCEPT ![t].pc = "updLast", ![t].rule = rule.id,
                                             ![t].alert = NewUUID(t),
                                             ![t].seen = @ \cup
                                               {Decision(rule.id, rule.last, TRUE, TRUE)}]
            ELSE /\ tasks' = [tasks EXCEPT ![t] =
                                [NextRule(tasks[t]) EXCEPT !.seen = @ \cup
                                   {Decision(rule.id, rule.last,
                                             EvaluateThreshold(rule, tasks[t].val).hit,
                                             FALSE)}]]
                 /\ UNCHANGED <<alerts, connBinding, auditLogs>>
    /\ UNCHANGED <<now, workflows, alertDefault, rules, executions, metrics, engine, storeOps,
                   definitions, auditUp, storeFaults>>

\* Evaluate: ruleRepo.UpdateLastTriggered, then the workflow branch
HexUpdLast(t) ==
    /\ tasks[t].kind = "evalHex" /\ tasks[t].pc = "updLast"
    /\ rules' = IF <<"UpdateAlertRuleLastTriggered", tasks[t].rule>> \in storeFaults
                THEN rules
                ELSE UpdateAlertRuleLastTriggered(tasks[t].rule)
    /\ LET rule == Head(tasks[t].todo) IN
       tasks' = [tasks EXCEPT ![t] =
                   IF rule.workflow # NoWf
                   THEN [tasks[t] EXCEPT !.pc = "exFind", !.wf = rule.workflow]
                   ELSE NextRule(tasks[t])]
    /\ UNCHANGED <<now, workflows, alertDefault, alerts, executions, metrics, engine,
                   connBinding, storeOps, definitions, auditLogs, auditUp, storeFaults>>

\* --------------------------------------------- WorkflowService (core/service)

\* WorkflowService.Execute is called by a user
Execute(wf, user) ==
    /\ tasks' = Append(tasks,
                   [IdleTask EXCEPT !.kind = "execute", !.pc = "exFind",
                                    !.wf = wf, !.user = user])
    /\ UNCHANGED <<now, workflows, alertDefault, rules, alerts, executions, metrics, engine,
                   connBinding, storeOps, definitions, auditLogs, auditUp, storeFaults>>

\* Execute: workflowRepo.FindByID and the CanExecute check
ExFind(t) ==
    /\ tasks[t].pc = "exFind"
    /\ tasks' = [tasks EXCEPT ![t] =
                   IF CanExecute(workflows[tasks[t].wf])
                   THEN [tasks[t] EXCEPT !.pc = "exSave"]
                   ELSE ReturnFromExecute(tasks[t], "ErrWorkflowCannotExecute")]
    /\ UNCHANGED <<now, workflows, alertDefault, rules, alerts, executions, metrics, engine,
                   connBinding, storeOps, definitions, auditLogs, auditUp, storeFaults>>

\* Execute: executionRepo.Save of the pending execution built with uuid.New();
\* the repository does not pass the id to the insert
ExSave(t) ==
    /\ tasks[t].pc = "exSave"
    /\ executions' = CreateExecution(workflows[tasks[t].wf].tenant, tasks[t].wf,
                                     NoTwid, <<"user", tasks[t].user>>, t)
    /\ tasks' = [tasks EXCEPT ![t].pc = "exEngine", ![t].exec = NewUUID(t)]
    /\ UNCHANGED <<now, workflows, alertDefault, rules, alerts, metrics, engine,
                   connBinding, storeOps, definitions, auditLogs, auditUp, storeFaults>>

\* Execute: executor.Execute with id "workflow-<id>-<version>"; a definition
\* that does not parse ends it before the engine is asked
ExEngine(t) ==
    /\ tasks[t].pc = "exEngine"
    /\ \E ok \in BOOLEAN :
          /\ ok => ~ParseDefinition(workflows[tasks[t].wf].definition).err
          /\ engine' = IF ok
                       THEN [engine EXCEPT !.started =
                               Append(@, [id |-> <<"workflow", tasks[t].wf,
                                                   workflows[tasks[t].wf].version>>,
                                          wf |-> tasks[t].wf,
                                          entry |-> "DynamicWorkflow", input |-> NoInput,
                                          by |-> t])]
                       ELSE engine
          /\ tasks' = [tasks EXCEPT ![t].pc = "exUpdate", ![t].ok = ok]
    /\ UNCHANGED <<now, workflows, alertDefault, rules, alerts, executions, metrics,
                   connBinding, storeOps, definitions, auditLogs, auditUp, storeFaults>>

\* Execute: MarkAsFailed or MarkAsRunning, then executionRepo.Update, and
\* logAudit when the engine took the workflow
ExUpdate(t) ==
    /\ tasks[t].pc = "exUpdate"
    /\ executions' = IF tasks[t].ok
                     THEN UpdateExecutionStatus(tasks[t].exec, "running", "")
                     ELSE UpdateExecutionStatus(tasks[t].exec, "failed", "startErr")
    /\ auditLogs' = IF tasks[t].ok
                    THEN logAudit(workflows[tasks[t].wf].tenant, "workflow.executed",
                                  "workflow", tasks[t].wf)
                    ELSE auditLogs
    /\ tasks' = [tasks EXCEPT ![t] =
                   ReturnFromExecute(tasks[t], IF tasks[t].ok THEN ReturnAfterAudit("ok")
                                               ELSE "startErr")]
    /\ UNCHANGED <<now, workflows, alertDefault, rules, alerts, metrics, engine,
                   connBinding, storeOps, definitions, auditUp, storeFaults>>

\* -------------------------------------------- ExecutionService (core/service)

\* ExecutionService.Cancel: executionRepo.FindByID and the CanCancel check
Cancel(id) ==
    /\ id \in DOMAIN executions
    /\ LET e == executions[id]
           task == [IdleTask EXCEPT !.kind = "cancel", !.target = id,
                                    !.snap = [status |-> e.status, twid |-> e.twid,
                                              error |-> e.error]]
       IN tasks' = Append(tasks,
                      IF ~CanCancel(e.status)
                      THEN Finish(task, "ErrExecutionCannotCancel")
                      ELSE [task EXCEPT !.pc = IF e.twid # NoTwid THEN "cEngine"
                                                ELSE "cUpdate"])
    /\ UNCHANGED <<now, workflows, alertDefault, rules, alerts, executions, metrics, engine,
                   connBinding, storeOps, definitions, auditLogs, auditUp, storeFaults>>

ContinueToUpdate(task) ==
    [task EXCEPT !.pc = "cUpdate"]

\* Cancel: the error of executor.Cancel is returned as it is
ReturnCancelError(task) ==
    Finish(task, "cancelErr")

\* Cancel: executor.Cancel, which the engine accepts or not
CEngine(t) ==
    /\ tasks[t].kind = "cancel" /\ tasks[t].pc = "cEngine"
    /\ \E ok \in BOOLEAN :
          /\ engine' = IF ok
                       THEN [engine EXCEPT !.cancelled = @ \cup {tasks[t].snap.twid}]
                       ELSE engine
          /\ tasks' = [tasks EXCEPT ![t] =
                         IF ok THEN [tasks[t] EXCEPT !.pc = "cUpdate"]
                         ELSE ReturnCancelError(tasks[t])]
    /\ UNCHANGED <<now, workflows, alertDefault, rules, alerts, executions, metrics,
                   connBinding, storeOps, definitions, auditLogs, auditUp, storeFaults>>

\* Cancel: MarkAsCancelled, then executionRepo.Update
CUpdate(t) ==
    /\ tasks[t].kind = "cancel" /\ tasks[t].pc = "cUpdate"
    /\ executions' = UpdateExecutionStatus(tasks[t].target, "cancelled",
                                           tasks[t].snap.error)
    /\ tasks' = [tasks EXCEPT ![t] = Finish(tasks[t], "ok")]
    /\ UNCHANGED <<now, workflows, alertDefault, rules, alerts, metrics, engine,
                   connBinding, storeOps, definitions, auditLogs, auditUp, storeFaults>>

\* ------------------------------------------------ AlertService (core/service)

\* AlertService.Acknowledge: alertRepo.FindByID, then Alert.Acknowledge on the copy
Acknowledge(id, user) ==
    /\ id \in DOMAIN alerts
    /\ LET task == [IdleTask EXCEPT !.kind = "ack", !.target = id, !.user = user] IN
       tasks' = Append(tasks,
                   IF ~CanAcknowledge(alerts[id].status)
                   THEN Finish(task, "ErrAlertAlreadyAcknowledged")
                   ELSE [task EXCEPT !.pc = "aUpdate", !.snap.status = "acknowledged"])
    /\ UNCHANGED <<now, workflows, alertDefault, rules, alerts, executions, metrics, engine,
                   connBinding, storeOps, definitions, auditLogs, auditUp, storeFaults>>

\* AlertService.Resolve: alertRepo.FindByID, then Alert.Resolve on the copy
Resolve(id, user) ==
    /\ id \in DOMAIN alerts
    /\ LET task == [IdleTask EXCEPT !.kind = "resolve", !.target = id, !.user = user] IN
       tasks' = Append(tasks,
                   IF ~CanResolve(alerts[id].status)
                   THEN Finish(task, "ErrAlertAlreadyResolved")
                   ELSE [task EXCEPT !.pc = "aUpdate", !.snap.status = "resolved"])
    /\ UNCHANGED <<now, workflows, alertDefault, rules, alerts, executions, metrics, engine,
                   connBinding, storeOps, definitions, auditLogs, auditUp, storeFaults>>

\* AlertRepository.Update: picks the statement from the status of the copy
AlertRepositoryUpdate(id, status, ackBy, resBy) ==
    IF status = "acknowledged" /\ ackBy # NoId THEN AcknowledgeAlert(id, ackBy)
    ELSE IF status = "resolved" /\ resBy # NoId THEN ResolveAlert(id, resBy)
    ELSE alerts

\* Acknowledge / Resolve: alertRepo.Update, then logAudit
AlertUpdate(t) ==
    /\ tasks[t].kind \in {"ack", "resolve"} /\ tasks[t].pc = "aUpdate"
    /\ alerts' = AlertRepositoryUpdate(tasks[t].target, tasks[t].snap.status,
                    IF tasks[t].kind = "ack" THEN tasks[t].user ELSE NoId,
                    IF tasks[t].kind = "resolve" THEN tasks[t].user ELSE NoId)
    /\ auditLogs' = logAudit(alerts[tasks[t].target].tenant,
                             IF tasks[t].kind = "ack" THEN "alert.acknowledged"
                             ELSE "alert.resolved",
                             "alert", tasks[t].target)
    /\ tasks' = [tasks EXCEPT ![t] = Finish(tasks[t], ReturnAfterAudit("ok"))]
    /\ UNCHANGED <<now, workflows, alertDefault, rules, executions, metrics, engine,
                   connBinding, storeOps, definitions, auditUp, storeFaults>>

\* ------------------------------------------ WorkflowService (core/service)

\* WorkflowService.Delete: workflowRepo.FindByID, then workflowRepo.Delete,
\* then logAudit
DeleteWorkflow(w) ==
    LET task == [IdleTask EXCEPT !.kind = "deleteWorkflow",
                                 !.tenant = workflows[w].tenant, !.wf = w] IN
    /\ IF workflows[w].status = "deleted"
       THEN /\ tasks' = Append(tasks, [Finish(task, "ErrNotFound") EXCEPT !.wf = w])
            /\ UNCHANGED <<workflows, executions, alerts, rules, auditLogs>>
       ELSE /\ workflows' = [workflows EXCEPT ![w].status = "deleted"]
            /\ executions' = DeleteWorkflowExecutions(w)
            /\ alerts' = DeleteWorkflowAlerts(w)
            /\ rules' = DeleteWorkflowRules(w)
            /\ auditLogs' = logAudit(workflows[w].tenant, "workflow.deleted",
                                     "workflow", w)
            /\ tasks' = Append(tasks, [Finish(task, ReturnAfterAudit("ok")) EXCEPT !.wf = w])
    /\ UNCHANGED <<now, alertDefault, metrics, engine, connBinding, storeOps,
                   definitions, auditUp, storeFaults>>

\* ids of the workflow rows that requests create
NewWorkflowIds == {"w4"}

\* WorkflowService.Create: SetTenantContext, workflowRepo.Save of a draft of
\* version 1, then logAudit with the id the service drew
CreateWorkflow(tenant, definition) ==
    LET t == Len(tasks) + 1
        task == [IdleTask EXCEPT !.kind = "createWorkflow", !.tenant = tenant] IN
    /\ \E w \in NewWorkflowIds \ DOMAIN workflows, c \in Conns :
          /\ connBinding' = SetTenantContext(c, tenant)
          /\ workflows' = [x \in DOMAIN workflows \cup {w} |->
                             IF x = w
                             THEN [tenant |-> tenant, status |-> "draft", version |-> 1,
                                   definition |-> definition]
                             ELSE workflows[x]]
          /\ auditLogs' = logAudit(tenant, "workflow.created", "workflow", NewUUID(t))
          /\ tasks' = Append(tasks, [Finish(task, ReturnAfterAudit("ok")) EXCEPT !.wf = w])
    /\ UNCHANGED <<now, alertDefault, rules, alerts, executions, metrics, engine,
                   storeOps, definitions, auditUp, storeFaults>>

\* WorkflowService.Update with a status and a definition, each of which the
\* input can leave out: workflowRepo.FindByID, the fields of the input
\* copied over, then workflowRepo.Update (UpdateWorkflow: SET ..., definition
\* = $4, status = $6, version = version + 1 WHERE id = $1), then logAudit
UpdateWorkflow(w, status, definition) ==
    LET task == [IdleTask EXCEPT !.kind = "updateWorkflow",
                                 !.tenant = workflows[w].tenant] IN
    /\ IF workflows[w].status = "deleted"
       THEN /\ tasks' = Append(tasks, [Finish(task, "ErrNotFound") EXCEPT !.wf = w])
            /\ UNCHANGED <<workflows, auditLogs>>
       ELSE /\ workflows' = [workflows EXCEPT
                               ![w].status = IF status = NotGiven THEN @ ELSE status,
                               ![w].definition = IF definition = NotGiven THEN @
                                                 ELSE definition,
                               ![w].version = @ + 1]
            /\ auditLogs' = logAudit(workflows[w].tenant, "workflow.updated",
                                     "workflow", w)
            /\ tasks' = Append(tasks, [Finish(task, ReturnAfterAudit("ok")) EXCEPT
                                          !.wf = w,
                                          !.snap.status = workflows'[w].status])
    /\ UNCHANGED <<now, alertDefault, rules, alerts, executions, metrics, engine,
                   connBinding, storeOps, definitions, auditUp, storeFaults>>

\* Workflow.Activate on the stored entity: a definition that does not parse
\* or has no step is refused and the status stays
ActivateWorkflow(w) ==
    LET task == [IdleTask EXCEPT !.kind = "activate", !.tenant = workflows[w].tenant]
        def == ParseDefinition(workflows[w].definition)
        result == IF def.err THEN "ErrInvalidDefinition"
                  ELSE IF def.steps = 0 THEN "ErrNoSteps" ELSE "ok"
    IN /\ workflows[w].status # "deleted"
       /\ workflows' = IF result = "ok" THEN [workflows EXCEPT ![w].status = "active"]
                       ELSE workflows
       /\ tasks' = Append(tasks, [Finish(task, result) EXCEPT
                                     !.wf = w, !.snap.status = workflows[w].status])
       /\ UNCHANGED <<now, alertDefault, rules, alerts, executions, metrics, engine,
                      connBinding, storeOps, definitions, auditLogs, auditUp, storeFaults>>

\* Workflow.Deactivate on the stored entity
DeactivateWorkflow(w) ==
    LET task == [IdleTask EXCEPT !.kind = "deactivate", !.tenant = workflows[w].tenant]
    IN /\ workflows[w].status # "deleted"
       /\ workflows' = [workflows EXCEPT ![w].status = "inactive"]
       /\ tasks' = Append(tasks, [Finish(task, "ok") EXCEPT !.wf = w])
       /\ UNCHANGED <<now, alertDefault, rules, alerts, executions, metrics, engine,
                      connBinding, storeOps, definitions, auditLogs, auditUp, storeFaults>>

\* the audit table stops taking inserts, or takes them again
AuditStoreChanges ==
    /\ auditUp' = ~auditUp
    /\ UNCHANGED <<now, workflows, alertDefault, rules, alerts, executions, metrics, engine,
                   connBinding, storeOps, tasks, definitions, auditLogs, storeFaults>>

\* --------------------------------- rule updates (AlertRuleService, Handler)

\* AlertRuleService.Update / alertrule Handler.Update: the rule is read and
\* the request's values are merged into the copy
RuleUpdate(r, input) ==
    /\ tasks' = Append(tasks,
                  [IdleTask EXCEPT !.kind = "ruleUpdate", !.pc = "save",
                                   !.tenant = rules[r].tenant, !.rule = r,
                                   !.edit = [enabled |-> input.enabled,
                                             cooldown |-> IF input.cooldown = NoCooldown
                                                          THEN rules[r].cooldown
                                                          ELSE input.cooldown]])
    /\ UNCHANGED <<now, workflows, alertDefault, rules, alerts, executions, metrics, engine,
                   connBinding, storeOps, definitions, auditLogs, auditUp, storeFaults>>

\* ... and the merged copy is written with UpdateAlertRule
RuleUpdateSave(t) ==
    /\ tasks[t].kind = "ruleUpdate" /\ tasks[t].pc = "save"
    /\ rules' = UpdateAlertRule(tasks[t].rule, tasks[t].tenant,
                                tasks[t].edit.enabled, tasks[t].edit.cooldown)
    /\ tasks' = [tasks EXCEPT ![t] = [Finish(tasks[t], "ok") EXCEPT !.rule = tasks[t].rule]]
    /\ UNCHANGED <<now, workflows, alertDefault, alerts, executions, metrics, engine,
                   connBinding, storeOps, definitions, auditLogs, auditUp, storeFaults>>

\* ----------------------------------------------- MetricService (core/service)

\* a reduction of the batch that keeps the first value of every name
FirstValues(batch) ==
    LET names == {batch[i].name : i \in DOMAIN batch} IN
    [n \in names |->
       batch[CHOOSE i \in DOMAIN batch :
                /\ batch[i].name = n
                /\ \A k \in DOMAIN batch : batch[k].name = n => i <= k].val]

\* evaluateBatchAlerts: lastValues[m.Name] = m.Value over the batch in order
RECURSIVE LastValues(_)
LastValues(batch) ==
    IF batch = <<>> THEN [n \in {} |-> 0]
    ELSE LET init == LastValues(SubSeq(batch, 1, Len(batch) - 1))
             m == batch[Len(batch)]
         IN [n \in DOMAIN init \cup {m.name} |->
               IF n = m.name THEN m.val ELSE init[n]]

\* MetricService.Ingest is called; the task after the request's own is kept
\* for the goroutine the request may spawn
Ingest(tenant, name, val) ==
    /\ tasks' = tasks \o
                   <<[IdleTask EXCEPT !.kind = "ingest", !.pc = "bind", !.tenant = tenant,
                                      !.queue = <<[name |-> name, val |-> val]>>],
                     IdleTask>>
    /\ UNCHANGED <<now, workflows, alertDefault, rules, alerts, executions, metrics, engine,
                   connBinding, storeOps, definitions, auditLogs, auditUp, storeFaults>>

\* MetricService.IngestBatch is called; the size cap is checked first
IngestBatch(tenant, batch) ==
    /\ LET task == [IdleTask EXCEPT !.kind = "ingestBatch", !.tenant = tenant,
                                    !.queue = batch, !.total = Len(batch)] IN
       tasks' = tasks \o
                   <<IF Len(batch) > MaxBatchSize THEN Finish(task, "ErrBatchTooLarge")
                     ELSE [task EXCEPT !.pc = "bind"],
                     IdleTask>>
    /\ UNCHANGED <<now, workflows, alertDefault, rules, alerts, executions, metrics, engine,
                   connBinding, storeOps, definitions, auditLogs, auditUp, storeFaults>>

\* the caller of an ingest goes away: the request context is cancelled
CancelRequest(t) ==
    /\ tasks[t].kind \in {"ingest", "ingestBatch"}
    /\ tasks[t].pc # "done" /\ ~tasks[t].cancelled
    /\ tasks' = [tasks EXCEPT ![t].cancelled = TRUE]
    /\ UNCHANGED <<now, workflows, alertDefault, rules, alerts, executions, metrics, engine,
                   connBinding, storeOps, definitions, auditLogs, auditUp, storeFaults>>

\* Ingest / IngestBatch: tenantSetter.SetTenantContext on the request context
IngestBind(t) ==
    /\ tasks[t].kind \in {"ingest", "ingestBatch"} /\ tasks[t].pc = "bind"
    /\ IF tasks[t].cancelled
       THEN /\ tasks' = [tasks EXCEPT ![t] = Finish(tasks[t], "error")]
            /\ UNCHANGED <<connBinding, storeOps>>
       ELSE \E c \in Conns :
              /\ connBinding' = SetTenantContext(c, tasks[t].tenant)
              /\ tasks' = [tasks EXCEPT ![t].pc = "save"]
              /\ UNCHANGED storeOps
    /\ UNCHANGED <<now, workflows, alertDefault, rules, alerts, executions, metrics, engine,
                   definitions, auditLogs, auditUp, storeFaults>>

\* the save whose error is dropped: the request goes on to start the evaluation
IngestSaveErrorDropped(t) ==
    /\ tasks[t].kind \in {"ingest", "ingestBatch"} /\ tasks[t].pc = "save"
    /\ \E c \in Conns, ok \in BOOLEAN :
          /\ tasks[t].cancelled => ~ok
          /\ storeOps' = storeOps \cup
                {[tenant |-> tasks[t].tenant, binding |-> connBinding[c],
                  during |-> Binders(t)]}
          /\ metrics' = IF ok
                        THEN metrics \cup
                             {[src |-> t, idx |-> i, tenant |-> tasks[t].tenant,
                               name |-> tasks[t].queue[i].name,
                               val |-> tasks[t].queue[i].val] :
                                 i \in DOMAIN tasks[t].queue}
                        ELSE metrics
          /\ tasks' = [tasks EXCEPT ![t].pc = "spawn", ![t].ok = ok]
    /\ UNCHANGED <<now, workflows, alertDefault, rules, alerts, executions, engine,
                   connBinding, definitions, auditLogs, auditUp, storeFaults>>

\* Ingest / IngestBatch: metricRepo.Save / SaveBatch on a connection of the
\* pool; the insert of a batch is one statement, stored whole or not at all
IngestSave(t) ==
    /\ tasks[t].kind \in {"ingest", "ingestBatch"} /\ tasks[t].pc = "save"
    /\ \E c \in Conns, ok \in BOOLEAN :
          /\ tasks[t].cancelled => ~ok
          /\ storeOps' = storeOps \cup
                {[tenant |-> tasks[t].tenant, binding |-> connBinding[c],
                  during |-> Binders(t)]}
          /\ metrics' = IF ok
                        THEN metrics \cup
                             {[src |-> t, idx |-> i, tenant |-> tasks[t].tenant,
                               name |-> tasks[t].queue[i].name,
                               val |-> tasks[t].queue[i].val] :
                                 i \in DOMAIN tasks[t].queue}
                        ELSE metrics
          /\ tasks' = [tasks EXCEPT ![t] =
                         IF ok THEN [tasks[t] EXCEPT !.pc = "spawn", !.ok = TRUE,
                                                     !.inserted = Len(tasks[t].queue)]
                         ELSE Finish(tasks[t], "error")]
    /\ UNCHANGED <<now, workflows, alertDefault, rules, alerts, executions, engine, connBinding,
                   definitions, auditLogs, auditUp, storeFaults>>

\* Ingest / IngestBatch: go evaluateAlerts / evaluateBatchAlerts on
\* context.Background(), then return nil
IngestSpawn(t) ==
    /\ tasks[t].kind \in {"ingest", "ingestBatch"} /\ tasks[t].pc = "spawn"
    /\ LET last == LastValues(tasks[t].queue) IN
       \E order \in Orderings(DOMAIN last) :
          tasks' = [tasks EXCEPT
                      ![t] = [Finish(tasks[t], "ok") EXCEPT !.inserted = tasks[t].inserted],
                      ![t + 1] = [IdleTask EXCEPT !.kind = "evalHex", !.pc = "find",
                                                  !.tenant = tasks[t].tenant, !.src = t,
                                                  !.queue = [i \in DOMAIN order |->
                                                              [name |-> order[i],
                                                               val |-> last[order[i]]]]]]
    /\ UNCHANGED <<now, workflows, alertDefault, rules, alerts, executions, metrics, engine,
                   connBinding, storeOps, definitions, auditLogs, auditUp, storeFaults>>

\* ------------------------------------------- metrics.Handler (legacy, served)

\* Handler.IngestBatch: an empty body is refused; every sample with a name is
\* inserted by a statement of its own, a failed insert is logged and skipped,
\* and the answer is 201 with the number of rows inserted
HandlerIngestBatch(tenant, batch, failed) ==
    LET t == Len(tasks) + 1
        task == [IdleTask EXCEPT !.kind = "handlerBatch", !.tenant = tenant,
                                 !.total = Len(batch)]
        stored == {i \in DOMAIN batch : batch[i].name # "" /\ i \notin failed}
    IN
    /\ IF Len(batch) = 0
       THEN /\ tasks' = Append(tasks, Finish(task, "badRequest"))
            /\ UNCHANGED metrics
       ELSE /\ metrics' = metrics \cup
                   {[src |-> t, idx |-> i, tenant |-> tenant,
                     name |-> batch[i].name, val |-> batch[i].val] : i \in stored}
            /\ tasks' = Append(tasks, [Finish(task, "created") EXCEPT
                                          !.inserted = Cardinality(stored)])
    /\ UNCHANGED <<now, workflows, alertDefault, rules, alerts, executions, engine,
                   connBinding, storeOps, definitions, auditLogs, auditUp, storeFaults>>

\* ------------------------------ metric definitions (MetricService, Handler)

\* MetricService.CreateDefinition is called: tenantSetter.SetTenantContext
CreateDefinition(tenant, name) ==
    /\ \E c \in Conns : connBinding' = SetTenantContext(c, tenant)
    /\ tasks' = Append(tasks,
                   [IdleTask EXCEPT !.kind = "createDefinition", !.pc = "cdFind",
                                    !.tenant = tenant, !.name = name])
    /\ UNCHANGED <<now, workflows, alertDefault, rules, alerts, executions, metrics, engine,
                   storeOps, definitions, auditLogs, auditUp, storeFaults>>

\* CreateDefinition: definitionRepo.FindByName; a row means
\* ErrMetricDefinitionExists
CdFind(t) ==
    /\ tasks[t].kind = "createDefinition" /\ tasks[t].pc = "cdFind"
    /\ tasks' = [tasks EXCEPT ![t] =
                   IF GetMetricDefinition(tasks[t].tenant, tasks[t].name) # {}
                   THEN [Finish(tasks[t], "ErrMetricDefinitionExists")
                            EXCEPT !.name = tasks[t].name]
                   ELSE [tasks[t] EXCEPT !.pc = "cdSave"]]
    /\ UNCHANGED <<now, workflows, alertDefault, rules, alerts, executions, metrics, engine,
                   connBinding, storeOps, definitions, auditLogs, auditUp, storeFaults>>

\* CreateDefinition: definitionRepo.Save; the error of a refused insert is
\* returned as it is
CdSave(t) ==
    /\ tasks[t].kind = "createDefinition" /\ tasks[t].pc = "cdSave"
    /\ definitions' = CreateMetricDefinition(tasks[t].tenant, tasks[t].name, t)
    /\ tasks' = [tasks EXCEPT ![t] =
                   [Finish(tasks[t],
                           IF GetMetricDefinition(tasks[t].tenant, tasks[t].name) # {}
                           THEN "saveErr" ELSE "ok")
                      EXCEPT !.name = tasks[t].name]]
    /\ UNCHANGED <<now, workflows, alertDefault, rules, alerts, executions, metrics, engine,
                   connBinding, storeOps, auditLogs, auditUp, storeFaults>>

\* Handler.CreateDefinition (the handler that is served): a request without a
\* name is refused, any other is written by the upsert and answered 201
HandlerCreateDefinition(tenant, name) ==
    LET t == Len(tasks) + 1
        task == [IdleTask EXCEPT !.kind = "handlerDefinition", !.tenant = tenant,
                                 !.name = name]
    IN
    /\ IF name = ""
       THEN /\ tasks' = Append(tasks, [Finish(task, "badRequest") EXCEPT !.name = name])
            /\ UNCHANGED definitions
       ELSE /\ definitions' = CreateMetricDefinitionOnConflictUpdate(tenant, name, t)
            /\ tasks' = Append(tasks, [Finish(task, "created") EXCEPT !.name = name])
    /\ UNCHANGED <<now, workflows, alertDefault, rules, alerts, executions, metrics, engine,
                   connBinding, storeOps, auditLogs, auditUp, storeFaults>>

\* ------------------------------------------------------------------- clock

Tick ==
    /\ now < MaxTime
    /\ now' = now + 1
    /\ UNCHANGED <<workflows, alertDefault, rules, alerts, executions, metrics, engine,
                   connBinding, storeOps, tasks, definitions, auditLogs, auditUp, storeFaults>>

\* --------------------------------------------------------- specifications

\* the steps of Evaluator.EvaluateMetric and of the bridge it calls
LegacyStep ==
    \/ \E t \in TaskIds : LegacyFind(t)
    \/ \E t \in TaskIds : LegacyLoop(t)
    \/ \E t \in TaskIds : LegacyUpdLast(t)
    \/ \E t \in TaskIds : TwGet(t)
    \/ \E t \in TaskIds : TwCreate(t)
    \/ \E t \in TaskIds : TwAlert(t)
    \/ \E t \in TaskIds : TwEngine(t)
    \/ \E t \in TaskIds : TwUpdate(t)

\* the steps of AlertRuleService.Evaluate and of the WorkflowService.Execute
\* it calls
HexStep ==
    \/ \E t \in TaskIds : HexFind(t)
    \/ \E t \in TaskIds : HexLoop(t)
    \/ \E t \in TaskIds : HexUpdLast(t)
    \/ \E t \in TaskIds : ExFind(t)
    \/ \E t \in TaskIds : ExSave(t)
    \/ \E t \in TaskIds : ExEngine(t)
    \/ \E t \in TaskIds : ExUpdate(t)

EvaluatorStep == LegacyStep \/ HexStep

EvalKinds == {"evalLegacy", "evalHex"}

\* execution lifecycle: the two evaluators, a user's Execute and Cancel
Next ==
    \/ /\ Started(EvalKinds) < MaxEvals
       /\ EvaluateMetric("tA", "cpu", 2)
    \/ /\ Started(EvalKinds) < MaxEvals
       /\ Evaluate("tA", "cpu", 2)
    \/ /\ Started({"execute"}) < MaxExecutes
       /\ \E wf \in WorkflowIds, user \in UserIds : Execute(wf, user)
    \/ /\ Started({"cancel"}) < MaxCancels
       /\ \E id \in DOMAIN executions : Cancel(id)
    \/ \E t \in TaskIds : CEngine(t)
    \/ \E t \in TaskIds : CUpdate(t)
    \/ EvaluatorStep

Spec == Init /\ [][Next]_vars

\* alert lifecycle: alerts the evaluator created, acknowledged and resolved
\* by concurrent requests
NextAlert ==
    \/ /\ Started(EvalKinds) < MaxEvals
       /\ Evaluate("tA", "cpu", 2)
    \/ /\ Started({"ack", "resolve"}) < MaxAlertOps
       /\ \E id \in DOMAIN alerts, user \in UserIds : Acknowledge(id, user)
    \/ /\ Started({"ack", "resolve"}) < MaxAlertOps
       /\ \E id \in DOMAIN alerts, user \in UserIds : Resolve(id, user)
    \/ \E t \in TaskIds : AlertUpdate(t)
    \/ HexStep

SpecAlert == Init /\ [][NextAlert]_vars

\* cooldown: several evaluations of one rule while the clock advances
NextCooldown ==
    \/ /\ Started(EvalKinds) < MaxCooldownEvals
       /\ \E val \in Values : EvaluateMetric("tA", "cpu", val)
    \/ /\ Started(EvalKinds) < MaxCooldownEvals
       /\ \E val \in Values : Evaluate("tA", "cpu", val)
    \/ Tick
    \/ \E t \in TaskIds : LegacyFind(t)
    \/ \E t \in TaskIds : LegacyLoop(t)
    \/ \E t \in TaskIds : LegacyUpdLast(t)
    \/ \E t \in TaskIds : HexFind(t)
    \/ \E t \in TaskIds : HexLoop(t)
    \/ \E t \in TaskIds : HexUpdLast(t)

\* the rule of tenant tA has no remediation workflow; the audit table takes
\* every insert
InitCooldown ==
    /\ Init
    /\ \A r \in RuleIds : rules[r].workflow = NoWf /\ rules[r].template = NoTemplate
    /\ auditUp

SpecCooldown == InitCooldown /\ [][NextCooldown]_vars

\* the bridge entered again for an alert it has already been given
NextBridgeTwice ==
    \/ /\ Started(EvalKinds) < MaxEvals
       /\ EvaluateMetric("tA", "cpu", 2)
    \/ /\ Started({"bridge"}) < MaxBridgeCalls
       /\ \E a \in DOMAIN alerts : triggerWorkflow(a)
    \/ LegacyStep

SpecBridgeTwice == Init /\ [][NextBridgeTwice]_vars

\* the rule of tenant tA carries a threshold condition and no remediation;
\* the audit table takes every insert
InitIngest ==
    /\ Init
    /\ \A r \in RuleIds : /\ rules[r].workflow = NoWf
                          /\ rules[r].template = NoTemplate
                          /\ rules[r].conditionType = "threshold"
    /\ auditUp

\* the shared pool: single-sample requests of both tenants, each followed by
\* the evaluation goroutine it spawns
NextPool ==
    \/ /\ Started({"ingest"}) < MaxIngests
       /\ \E tenant \in Tenants : Ingest(tenant, "cpu", 2)
    \/ \E t \in TaskIds : IngestBind(t)
    \/ \E t \in TaskIds : IngestSave(t)
    \/ \E t \in TaskIds : IngestSpawn(t)
    \/ \E t \in TaskIds : HexFind(t)
    \/ \E t \in TaskIds : HexLoop(t)
    \/ \E t \in TaskIds : HexUpdLast(t)

SpecPool == InitIngest /\ [][NextPool]_vars

\* ingestion: single and batch requests of one tenant, each followed by the
\* evaluation goroutine it spawns
NextIngest ==
    \/ /\ Started({"ingest", "ingestBatch"}) < MaxIngests
       /\ Ingest("tA", "cpu", 2)
    \/ /\ Started({"ingest", "ingestBatch"}) < MaxIngests
       /\ \E batch \in BatchInputs : IngestBatch("tA", batch)
    \/ \E t \in TaskIds : IngestBind(t)
    \/ \E t \in TaskIds : IngestSave(t)
    \/ \E t \in TaskIds : IngestSpawn(t)
    \/ \E t \in TaskIds : HexFind(t)
    \/ \E t \in TaskIds : HexLoop(t)
    \/ \E t \in TaskIds : HexUpdLast(t)

SpecIngest == InitIngest /\ [][NextIngest]_vars

\* batch ingestion through the service and through the handler that is served
BatchKinds == {"ingestBatch", "handlerBatch"}

NextBatch ==
    \/ /\ Started(BatchKinds) < MaxIngests
       /\ \E batch \in BatchInputs \cup {BigBatch} : IngestBatch("tA", batch)
    \/ /\ Started(BatchKinds) < MaxIngests
       /\ \E batch \in HandlerBatchInputs :
             \E failed \in InsertFailures(batch) : HandlerIngestBatch("tA", batch, failed)
    \/ \E t \in TaskIds : IngestBind(t)
    \/ \E t \in TaskIds : IngestSave(t)
    \/ \E t \in TaskIds : IngestSpawn(t)

SpecBatch == InitIngest /\ [][NextBatch]_vars

\* rejected alert calls: alerts of a rule without remediation, acknowledged
\* and resolved by requests that may come too late
NextAlertOps ==
    \/ /\ Started(EvalKinds) < MaxEvals
       /\ Evaluate("tA", "cpu", 2)
    \/ /\ Started({"ack", "resolve"}) < MaxAlertOps
       /\ \E id \in DOMAIN alerts, user \in UserIds : Acknowledge(id, user)
    \/ /\ Started({"ack", "resolve"}) < MaxAlertOps
       /\ \E id \in DOMAIN alerts, user \in UserIds : Resolve(id, user)
    \/ \E t \in TaskIds : AlertUpdate(t)
    \/ \E t \in TaskIds : HexFind(t)
    \/ \E t \in TaskIds : HexLoop(t)
    \/ \E t \in TaskIds : HexUpdLast(t)

SpecAlertOps == InitIngest /\ [][NextAlertOps]_vars

\* a rule that is edited while evaluations work on it
NextRules ==
    \/ /\ Started(EvalKinds) < MaxEvals
       /\ Evaluate("tA", "cpu", 2)
    \/ /\ Started({"ruleUpdate"}) < MaxRuleUpdates
       /\ \E r \in RuleIds, input \in RuleEdits : RuleUpdate(r, input)
    \/ \E t \in TaskIds : RuleUpdateSave(t)
    \/ Tick
    \/ \E t \in TaskIds : HexFind(t)
    \/ \E t \in TaskIds : HexLoop(t)
    \/ \E t \in TaskIds : HexUpdLast(t)

SpecRules == InitIngest /\ [][NextRules]_vars

\* alerts linked to executions by the bridge, then acknowledged, resolved,
\* handed to the bridge again, or left behind by the deletion of the workflow
LinkOpKinds == {"ack", "resolve", "bridge", "deleteWorkflow"}

\* the store after Evaluator.EvaluateMetric("tA", "cpu", 2) has run to its end
\* at time 0: rule r1 fired, its alert was created, the bridge saved the
\* execution of workflow w1 and linked the alert to it, and the engine started
\* the workflow or refused to
InitLinks ==
    /\ now = 0
    /\ workflows = [w \in WorkflowIds |->
            CASE w = "w1" -> [tenant |-> "tA", status |-> "active", version |-> 1,
                              definition |-> "steps"]
              [] w = "w2" -> [tenant |-> "tB", status |-> "active", version |-> 1,
                              definition |-> "steps"]
              [] w = "w3" -> [tenant |-> "tA", status |-> "draft", version |-> 1,
                              definition |-> "none"]]
    /\ rules = [r \in RuleIds |->
                  [id |-> r, tenant |-> "tA", enabled |-> TRUE,
                   conditionType |-> "metric_threshold", metricName |-> "cpu",
                   operator |-> "gt", threshold |-> 1,
                   severity |-> "critical", cooldown |-> 2,
                   workflow |-> "w1", template |-> NoTemplate,
                   titleTemplate |-> ExampleTitle, last |-> 0]]
    /\ alertDefault \in AlertInitialStatuses
    /\ alerts = <<[tenant |-> "tA", title |-> AlertTitle([titleTemplate |-> ExampleTitle]),
                   rule |-> "r1", severity |-> "critical",
                   status |-> alertDefault, ackBy |-> NoId, ackAt |-> NoTime,
                   resBy |-> NoId, resAt |-> NoTime, execId |-> 1, by |-> 1]>>
    /\ \E ok \in BOOLEAN :
          /\ executions =
                <<[tenant |-> "tA", workflow |-> "w1", twid |-> <<"alert", 1>>,
                   runId |-> IF ok THEN 1 ELSE NoId,
                   status |-> IF ok THEN "running" ELSE "failed",
                   error |-> IF ok THEN "" ELSE "failed to start workflow",
                   triggeredBy |-> <<"alert_rule", "r1">>,
                   startedAt |-> IF ok THEN 0 ELSE NoTime,
                   completedAt |-> NoTime, deleted |-> FALSE, by |-> 1]>>
          /\ engine = [started |-> IF ok THEN <<[id |-> <<"alert", 1>>, wf |-> "w1",
                                                 entry |-> "DynamicWorkflow",
                                                 input |-> DefaultInput, by |-> 1]>>
                                   ELSE <<>>,
                       cancelled |-> {}]
    /\ metrics = {}
    /\ connBinding = [c \in Conns |-> NoTenant]
    /\ storeOps = {}
    /\ tasks = <<[Finish([IdleTask EXCEPT !.kind = "evalLegacy", !.tenant = "tA"], "ok")
                    EXCEPT !.seen = {[rule |-> "r1", at |-> 0, sawLast |-> NoTime,
                                      hit |-> TRUE, fired |-> TRUE]}]>>
    /\ definitions = {}
    /\ auditLogs = {}
    /\ auditUp = TRUE
    /\ storeFaults = {}

NextLinks ==
    \/ /\ Started(LinkOpKinds) < MaxLinkOps
       /\ \E a \in DOMAIN alerts : triggerWorkflow(a)
    \/ /\ Started(LinkOpKinds) < MaxLinkOps
       /\ \E id \in DOMAIN alerts, user \in UserIds : Acknowledge(id, user)
    \/ /\ Started(LinkOpKinds) < MaxLinkOps
       /\ \E id \in DOMAIN alerts, user \in UserIds : Resolve(id, user)
    \/ /\ Started(LinkOpKinds) < MaxLinkOps
       /\ DeleteWorkflow("w1")
    \/ \E t \in TaskIds : AlertUpdate(t)
    \/ \E t \in TaskIds : TwGet(t)
    \/ \E t \in TaskIds : TwCreate(t)
    \/ \E t \in TaskIds : TwAlert(t)
    \/ \E t \in TaskIds : TwEngine(t)
    \/ \E t \in TaskIds : TwUpdate(t)

SpecLinks == InitLinks /\ [][NextLinks]_vars

\* cancellation of executions: the one the bridge left behind, and those that
\* users start through WorkflowService.Execute
NextCancel ==
    \/ /\ Started({"execute"}) < MaxExecutes
       /\ \E user \in UserIds : Execute("w1", user)
    \/ /\ Started({"cancel"}) < MaxCancels
       /\ \E id \in DOMAIN executions : Cancel(id)
    \/ \E t \in TaskIds : CEngine(t)
    \/ \E t \in TaskIds : CUpdate(t)
    \/ \E t \in TaskIds : ExFind(t)
    \/ \E t \in TaskIds : ExSave(t)
    \/ \E t \in TaskIds : ExEngine(t)
    \/ \E t \in TaskIds : ExUpdate(t)

SpecCancel == InitLinks /\ [][NextCancel]_vars

\* metric definitions created through the service and through the handler
\* that is served
DefinitionKinds == {"createDefinition", "handlerDefinition"}

NextDefinitions ==
    \/ /\ Started(DefinitionKinds) < MaxDefinitionCreates
       /\ \E tenant \in Tenants, name \in MetricNames : CreateDefinition(tenant, name)
    \/ /\ Started(DefinitionKinds) < MaxDefinitionCreates
       /\ \E tenant \in Tenants, name \in MetricNames \cup {""} :
             HandlerCreateDefinition(tenant, name)
    \/ \E t \in TaskIds : CdFind(t)
    \/ \E t \in TaskIds : CdSave(t)

SpecDefinitions == InitIngest /\ [][NextDefinitions]_vars

\* operations that write an audit entry, while the audit table comes and goes
AuditedKinds ==
    {"evalHex", "ack", "resolve", "execute", "deleteWorkflow", "updateWorkflow",
     "createWorkflow"}

\* the rule of tenant tA carries a threshold condition and no remediation
InitAudit ==
    /\ Init
    /\ \A r \in RuleIds : /\ rules[r].workflow = NoWf
                          /\ rules[r].template = NoTemplate
                          /\ rules[r].conditionType = "threshold"

NextAudit ==
    \/ /\ Started(AuditedKinds) < MaxAuditedOps
       /\ Evaluate("tA", "cpu", 2)
    \/ /\ Started(AuditedKinds) < MaxAuditedOps
       /\ \E id \in DOMAIN alerts, user \in UserIds : Acknowledge(id, user)
    \/ /\ Started(AuditedKinds) < MaxAuditedOps
       /\ \E id \in DOMAIN alerts, user \in UserIds : Resolve(id, user)
    \/ /\ Started(AuditedKinds) < MaxAuditedOps
       /\ \E user \in UserIds : Execute("w1", user)
    \/ /\ Started(AuditedKinds) < MaxAuditedOps
       /\ DeleteWorkflow("w1")
    \/ /\ Started(AuditedKinds) < MaxAuditedOps
       /\ UpdateWorkflow("w3", "active", NotGiven)
    \/ /\ Started(AuditedKinds) < MaxAuditedOps
       /\ CreateWorkflow("tA", "none")
    \/ AuditStoreChanges
    \/ \E t \in TaskIds : AlertUpdate(t)
    \/ \E t \in TaskIds : HexFind(t)
    \/ \E t \in TaskIds : HexLoop(t)
    \/ \E t \in TaskIds : HexUpdLast(t)
    \/ \E t \in TaskIds : ExFind(t)
    \/ \E t \in TaskIds : ExSave(t)
    \/ \E t \in TaskIds : ExEngine(t)
    \/ \E t \in TaskIds : ExUpdate(t)

SpecAudit == InitAudit /\ [][NextAudit]_vars

\* the bridge for rules with a trigger_input_template
InitTemplates ==
    /\ Init
    /\ auditUp
    /\ \A r \in RuleIds : /\ rules[r].workflow = "w1"
                          /\ rules[r].conditionType = "metric_threshold"

NextTemplates ==
    \/ /\ Started(EvalKinds) < MaxEvals
       /\ EvaluateMetric("tA", "cpu", 2)
    \/ LegacyStep

SpecTemplates == InitTemplates /\ [][NextTemplates]_vars

\* an evaluation over two candidate rules while statements of the store fail
FaultRuleIds == {"r1", "r2"}

InitFaults ==
    /\ now = 0
    /\ workflows = [w \in WorkflowIds |->
            CASE w = "w1" -> [tenant |-> "tA", status |-> "active", version |-> 1,
                              definition |-> "steps"]
              [] w = "w2" -> [tenant |-> "tB", status |-> "active", version |-> 1,
                              definition |-> "steps"]
              [] w = "w3" -> [tenant |-> "tA", status |-> "draft", version |-> 1,
                              definition |-> "none"]]
    /\ \E ct \in {"threshold", "metric_threshold"} :
          rules = [r \in FaultRuleIds |->
                     [id |-> r, tenant |-> "tA", enabled |-> TRUE,
                      conditionType |-> ct, metricName |-> "cpu",
                      operator |-> "gt", threshold |-> 1,
                      severity |-> "critical", cooldown |-> 1,
                      workflow |-> "w1", template |-> NoTemplate,
                      titleTemplate |-> ExampleTitle, last |-> NoTime]]
    /\ alertDefault \in AlertInitialStatuses
    /\ alerts = <<>>
    /\ executions = <<>>
    /\ metrics = {}
    /\ engine = [started |-> <<>>, cancelled |-> {}]
    /\ connBinding = [c \in Conns |-> NoTenant]
    /\ storeOps = {}
    /\ tasks = <<>>
    /\ definitions = {}
    /\ auditLogs = {}
    /\ auditUp = TRUE
    /\ storeFaults \in {{}} \cup {{f} : f \in StoreFaultKinds \X FaultRuleIds}

NextFaults ==
    \/ /\ Started(EvalKinds) < MaxFaultEvals
       /\ \/ EvaluateMetric("tA", "cpu", 2)
          \/ Evaluate("tA", "cpu", 2)
    \/ EvaluatorStep

SpecFaults == InitFaults /\ [][NextFaults]_vars

\* one evaluation of a rule whose operator is any name either operator
\* table knows
Operators == {"gt", "gte", "lt", "lte", "eq", "ne", "neq"}

InitOperators ==
    /\ now = 0
    /\ workflows = [w \in WorkflowIds |->
            CASE w = "w1" -> [tenant |-> "tA", status |-> "active", version |-> 1,
                              definition |-> "steps"]
              [] w = "w2" -> [tenant |-> "tB", status |-> "active", version |-> 1,
                              definition |-> "steps"]
              [] w = "w3" -> [tenant |-> "tA", status |-> "draft", version |-> 1,
                              definition |-> "none"]]
    /\ \E ct \in {"threshold", "metric_threshold"}, op \in Operators :
          rules = [r \in RuleIds |->
                     [id |-> r, tenant |-> "tA", enabled |-> TRUE,
                      conditionType |-> ct, metricName |-> "cpu",
                      operator |-> op, threshold |-> 1,
                      severity |-> "critical", cooldown |-> 1,
                      workflow |-> NoWf, template |-> NoTemplate,
                      titleTemplate |-> ExampleTitle, last |-> NoTime]]
    /\ alertDefault \in AlertInitialStatuses
    /\ alerts = <<>>
    /\ executions = <<>>
    /\ metrics = {}
    /\ engine = [started |-> <<>>, cancelled |-> {}]
    /\ connBinding = [c \in Conns |-> NoTenant]
    /\ storeOps = {}
    /\ tasks = <<>>
    /\ definitions = {}
    /\ auditLogs = {}
    /\ auditUp = TRUE
    /\ storeFaults = {}

NextOperators ==
    \/ /\ Started(EvalKinds) < MaxEvals
       /\ \E val \in Values : \/ EvaluateMetric("tA", "cpu", val)
                                \/ Evaluate("tA", "cpu", val)
    \/ \E t \in TaskIds : LegacyFind(t)
    \/ \E t \in TaskIds : LegacyLoop(t)
    \/ \E t \in TaskIds : LegacyUpdLast(t)
    \/ \E t \in TaskIds : HexFind(t)
    \/ \E t \in TaskIds : HexLoop(t)
    \/ \E t \in TaskIds : HexUpdLast(t)

SpecOperators == InitOperators /\ [][NextOperators]_vars

\* one evaluation of a rule whose title template is any of TitleTemplates
InitTitles ==
    /\ now = 0
    /\ workflows = [w \in WorkflowIds |->
            CASE w = "w1" -> [tenant |-> "tA", status |-> "active", version |-> 1,
                              definition |-> "steps"]
              [] w = "w2" -> [tenant |-> "tB", status |-> "active", version |-> 1,
                              definition |-> "steps"]
              [] w = "w3" -> [tenant |-> "tA", status |-> "draft", version |-> 1,
                              definition |-> "none"]]
    /\ \E ct \in {"threshold", "metric_threshold"}, title \in TitleTemplates :
          rules = [r \in RuleIds |->
                     [id |-> r, tenant |-> "tA", enabled |-> TRUE,
                      conditionType |-> ct, metricName |-> "cpu",
                      operator |-> "gt", threshold |-> 1,
                      severity |-> "critical", cooldown |-> 1,
                      workflow |-> NoWf, template |-> NoTemplate,
                      titleTemplate |-> title, last |-> NoTime]]
    /\ alertDefault \in AlertInitialStatuses
    /\ alerts = <<>>
    /\ executions = <<>>
    /\ metrics = {}
    /\ engine = [started |-> <<>>, cancelled |-> {}]
    /\ connBinding = [c \in Conns |-> NoTenant]
    /\ storeOps = {}
    /\ tasks = <<>>
    /\ definitions = {}
    /\ auditLogs = {}
    /\ auditUp = TRUE
    /\ storeFaults = {}

SpecTitles == InitTitles /\ [][NextOperators]_vars

\* one evaluation of a rule whose workflow has a definition of any shape
InitEntrypoints ==
    /\ now = 0
    /\ \E def \in DefinitionShapes :
          workflows = [w \in WorkflowIds |->
            CASE w = "w1" -> [tenant |-> "tA", status |-> "active", version |-> 1,
                              definition |-> def]
              [] w = "w2" -> [tenant |-> "tB", status |-> "active", version |-> 1,
                              definition |-> "steps"]
              [] w = "w3" -> [tenant |-> "tA", status |-> "draft", version |-> 1,
                              definition |-> "none"]]
    /\ \E ct \in {"threshold", "metric_threshold"} :
          rules = [r \in RuleIds |->
                     [id |-> r, tenant |-> "tA", enabled |-> TRUE,
                      conditionType |-> ct, metricName |-> "cpu",
                      operator |-> "gt", threshold |-> 1,
                      severity |-> "critical", cooldown |-> 1,
                      workflow |-> "w1", template |-> NoTemplate,
                      titleTemplate |-> ExampleTitle, last |-> NoTime]]
    /\ alertDefault \in AlertInitialStatuses
    /\ alerts = <<>>
    /\ executions = <<>>
    /\ metrics = {}
    /\ engine = [started |-> <<>>, cancelled |-> {}]
    /\ connBinding = [c \in Conns |-> NoTenant]
    /\ storeOps = {}
    /\ tasks = <<>>
    /\ definitions = {}
    /\ auditLogs = {}
    /\ auditUp = TRUE
    /\ storeFaults = {}

NextEntrypoints ==
    \/ /\ Started(EvalKinds) < MaxEvals
       /\ \/ EvaluateMetric("tA", "cpu", 2)
          \/ Evaluate("tA", "cpu", 2)
    \/ EvaluatorStep

SpecEntrypoints == InitEntrypoints /\ [][NextEntrypoints]_vars

\* users start the same workflow more than once, and cancel
NextStarts ==
    \/ /\ Started({"execute"}) < MaxStarts
       /\ \E user \in UserIds : Execute("w1", user)
    \/ /\ Started({"cancel"}) < MaxCancels
       /\ \E id \in DOMAIN executions : Cancel(id)
    \/ \E t \in TaskIds : CEngine(t)
    \/ \E t \in TaskIds : CUpdate(t)
    \/ \E t \in TaskIds : ExFind(t)
    \/ \E t \in TaskIds : ExSave(t)
    \/ \E t \in TaskIds : ExEngine(t)
    \/ \E t \in TaskIds : ExUpdate(t)

SpecStarts == InitLinks /\ [][NextStarts]_vars

\* the life of workflows: created, updated, activated and deactivated
WorkflowOpKinds == {"createWorkflow", "updateWorkflow", "activate", "deactivate"}

NextWorkflows ==
    \/ /\ Started(WorkflowOpKinds) < MaxWorkflowOps
       /\ \/ \E def \in DefinitionShapes : CreateWorkflow("tA", def)
          \/ \E w \in DOMAIN workflows,
                status \in {NotGiven, "draft", "active", "inactive"},
                def \in DefinitionShapes \cup {NotGiven} : UpdateWorkflow(w, status, def)
          \/ \E w \in DOMAIN workflows : ActivateWorkflow(w)
          \/ \E w \in DOMAIN workflows : DeactivateWorkflow(w)

SpecWorkflows == InitAudit /\ [][NextWorkflows]_vars

\* remediation in the background of an ingest request
NextRemediation ==
    \/ /\ Started({"ingest", "ingestBatch"}) < MaxEvals
       /\ Ingest("tA", "cpu", 2)
    \/ /\ Started({"ingest", "ingestBatch"}) < MaxEvals
       /\ \E batch \in BatchInputs : IngestBatch("tA", batch)
    \/ \E t \in TaskIds : CancelRequest(t)
    \/ \E t \in TaskIds : IngestBind(t)
    \/ \E t \in TaskIds : IngestSave(t)
    \/ \E t \in TaskIds : IngestSpawn(t)
    \/ HexStep

SpecRemediation == Init /\ [][NextRemediation]_vars

\* ------------------------------------------- properties: execution lifecycle

\* C1: once an execution's stored status is completed, failed or cancelled,
\* no later step of Execute, Cancel or the workflow bridge changes it
C1_TerminalStatusIsFinal ==
    [][\A e \in DOMAIN executions :
          IsTerminal(executions[e].status) =>
              executions'[e].status = executions[e].status]_vars

\* C1: a Cancel has returned success for an execution that is stored as running
C1_CancelledThenRunning ==
    \E t \in TaskIds, e \in DOMAIN executions :
        /\ tasks[t].kind = "cancel" /\ tasks[t].result = "ok"
        /\ engine.cancelled # {}
        /\ executions[e].twid \in engine.cancelled
        /\ executions[e].status = "running"

\* C5: a fired rule of one tenant that names a workflow of another tenant
\* still gets its alert, but no execution row is created for it and the
\* engine is never asked to start the workflow
C5_NoRemediationAcrossTenants ==
    /\ \A t \in TaskIds :
          (tasks[t].kind \in EvalKinds /\ tasks[t].wf # NoWf) =>
              \E a \in DOMAIN alerts : alerts[a].by = t
    /\ \A e \in DOMAIN executions :
          tasks[executions[e].by].kind \in EvalKinds =>
              workflows[executions[e].workflow].tenant = tasks[executions[e].by].tenant
    /\ \A i \in DOMAIN engine.started :
          tasks[engine.started[i].by].kind \in EvalKinds =>
              workflows[engine.started[i].wf].tenant = tasks[engine.started[i].by].tenant

\* C5: the evaluation of tenant tA has finished, and the other tenant's
\* workflow has an execution row and was started in the engine
C5_ForeignWorkflowStarted ==
    \E e \in DOMAIN executions, i \in DOMAIN engine.started :
        /\ tasks[executions[e].by].kind = "evalHex"
        /\ tasks[executions[e].by].pc = "done"
        /\ tasks[executions[e].by].tenant = "tA"
        /\ executions[e].tenant = "tB"
        /\ engine.started[i].by = executions[e].by
        /\ workflows[engine.started[i].wf].tenant = "tB"

\* C6: no execution row exists and no engine start was requested for a
\* workflow that is not active, whichever path started it
C6_OnlyActiveWorkflowsRun ==
    /\ \A e \in DOMAIN executions : CanExecute(workflows[executions[e].workflow])
    /\ \A i \in DOMAIN engine.started : CanExecute(workflows[engine.started[i].wf])

\* C6: the bridge has stored a running execution of a draft workflow
C6_DraftWorkflowRunning ==
    \E e \in DOMAIN executions :
        /\ workflows[executions[e].workflow].status = "draft"
        /\ executions[e].triggeredBy[1] = "alert_rule"
        /\ executions[e].status = "running"

\* C10: every change of an execution's stored status is one of pending ->
\* running, running -> completed | failed | cancelled, pending -> failed |
\* cancelled
C10_StatusEdges ==
    [][\A e \in DOMAIN executions :
          executions'[e].status # executions[e].status =>
              <<executions[e].status, executions'[e].status>> \in
                  {<<"pending", "running">>, <<"running", "completed">>,
                   <<"running", "failed">>, <<"running", "cancelled">>,
                   <<"pending", "failed">>, <<"pending", "cancelled">>}]_vars

\* C10: a Cancel has returned success for an execution that is stored as failed
\* with the bridge's start error
C10_CancelledThenFailed ==
    \E t \in TaskIds, e \in DOMAIN executions :
        /\ tasks[t].kind = "cancel" /\ tasks[t].result = "ok"
        /\ executions[e].twid \in engine.cancelled
        /\ executions[e].status = "failed"
        /\ executions[e].error = "failed to start workflow"

\* ------------------------------------------------ properties: alert lifecycle

\* C2: under any Acknowledge and Resolve calls, concurrent ones included, an
\* alert's stored status only moves triggered|open -> acknowledged,
\* acknowledged -> resolved or triggered|open -> resolved, and never leaves
\* resolved
C2_AlertStatusEdges ==
    [][\A a \in DOMAIN alerts :
          alerts'[a].status # alerts[a].status =>
              <<alerts[a].status, alerts'[a].status>> \in
                  {<<"triggered", "acknowledged">>, <<"open", "acknowledged">>,
                   <<"acknowledged", "resolved">>, <<"triggered", "resolved">>,
                   <<"open", "resolved">>}]_vars

\* C2: both calls have returned success and the alert that was resolved is
\* stored as acknowledged
C2_ResolvedThenAcknowledged ==
    \E a \in DOMAIN alerts, t, u \in TaskIds :
        /\ tasks[t].kind = "ack" /\ tasks[t].result = "ok"
        /\ tasks[u].kind = "resolve" /\ tasks[u].result = "ok"
        /\ alerts[a].resBy # NoId
        /\ alerts[a].status = "acknowledged"

\* C11: an Acknowledge of an alert that is not open or triggered, and a
\* Resolve of an alert that is resolved, return their error at once and leave
\* the alert's row as it was
C11_RejectedCallLeavesAlert ==
    [][\A t \in DOMAIN tasks' \ DOMAIN tasks :
          LET a == tasks'[t].target IN
          /\ (tasks'[t].kind = "ack" /\ alerts[a].status \notin {"open", "triggered"}) =>
                 /\ tasks'[t].pc = "done"
                 /\ tasks'[t].result = "ErrAlertAlreadyAcknowledged"
                 /\ alerts' = alerts
          /\ (tasks'[t].kind = "resolve" /\ alerts[a].status = "resolved") =>
                 /\ tasks'[t].pc = "done"
                 /\ tasks'[t].result = "ErrAlertAlreadyResolved"
                 /\ alerts' = alerts]_vars

\* C11: an Acknowledge and a Resolve of one resolved alert have both been
\* rejected, and the row still carries what the successful Resolve wrote
C11_BothRejected ==
    \E t, u, v \in TaskIds :
        /\ tasks[t].kind = "resolve" /\ tasks[t].result = "ok"
        /\ tasks[u].kind = "ack" /\ tasks[u].result = "ErrAlertAlreadyAcknowledged"
        /\ tasks[v].kind = "resolve" /\ tasks[v].result = "ErrAlertAlreadyResolved"
        /\ tasks[u].target = tasks[t].target /\ tasks[v].target = tasks[t].target
        /\ alerts[tasks[t].target].status = "resolved"
        /\ alerts[tasks[t].target].resBy # NoId
        /\ alerts[tasks[t].target].ackBy = NoId
        /\ alerts[tasks[t].target].ackAt = NoTime

\* -------------------------------------------------- properties: batch ingest

\* samples of the batch of request t that are in the store
StoredOf(t) == {m \in metrics : m.src = t}

\* C12: once a batch ingest has returned, either it succeeded and every sample
\* of its batch is stored, or it failed and none of them is
C12_BatchAllOrNothing ==
    \A t \in TaskIds :
        (tasks[t].kind \in BatchKinds /\ tasks[t].pc = "done") =>
            \/ /\ tasks[t].result \in {"ok", "created"}
               /\ Cardinality(StoredOf(t)) = tasks[t].total
            \/ /\ tasks[t].result \notin {"ok", "created"}
               /\ StoredOf(t) = {}

\* C12: the handler answered 201 for a batch of which one sample is stored
\* and the other is not
C12_BatchPartlyStored ==
    \E t \in TaskIds :
        /\ tasks[t].kind = "handlerBatch" /\ tasks[t].result = "created"
        /\ tasks[t].total = 2 /\ tasks[t].inserted = 1
        /\ Cardinality(StoredOf(t)) = 1

\* C13: a batch ingest of more than MaxBatchSize samples has returned the
\* batch-too-large error, none of its samples is stored and no evaluation
\* was started for it
C13_OversizedBatchRejected ==
    \A t \in TaskIds :
        (tasks[t].kind \in BatchKinds /\ tasks[t].total > MaxBatchSize) =>
            /\ tasks[t].pc = "done" /\ tasks[t].result = "ErrBatchTooLarge"
            /\ StoredOf(t) = {}
            /\ \A u \in TaskIds : tasks[u].src # t

\* C13: the handler answered 201 for a batch of MaxBatchSize + 1 samples and
\* stored all of them
C13_OversizedBatchStored ==
    \E t \in TaskIds :
        /\ tasks[t].kind = "handlerBatch" /\ tasks[t].result = "created"
        /\ tasks[t].total = MaxBatchSize + 1
        /\ tasks[t].inserted = MaxBatchSize + 1
        /\ Cardinality(StoredOf(t)) = MaxBatchSize + 1

\* ------------------------------------------------ properties: created alerts

\* C14: every alert an evaluator created names the rule that fired, has that
\* rule's severity, and is stored with the initial status triggered
C14_EvaluatorAlertFields ==
    \A a \in DOMAIN alerts :
        /\ alerts[a].rule \in RuleIds
        /\ alerts[a].severity = rules[alerts[a].rule].severity
        /\ alerts[a].status = "triggered"

\* C14: an evaluation of rule r1 created an alert that names the rule and has
\* its severity, and the row's status is open
C14_AlertCreatedOpen ==
    \E a \in DOMAIN alerts :
        /\ tasks[alerts[a].by].kind \in EvalKinds
        /\ alerts[a].rule = "r1"
        /\ alerts[a].severity = rules["r1"].severity
        /\ alerts[a].status = "open"

\* ------------------------------------------------------ properties: cooldown

\* C3: when a sample meets a rule's threshold at t2, less than the cooldown
\* after an evaluation at t1 < t2 fired the rule, and t2's evaluation read the
\* rule with the last_triggered_at a commit at or after t1 left, then the
\* evaluation at t2 creates no alert
C3_CooldownSuppresses ==
    \A t1, t2 \in TaskIds :
        \A d1 \in tasks[t1].seen, d2 \in tasks[t2].seen :
            (/\ d1.rule = d2.rule
             /\ d1.fired
             /\ d2.hit
             /\ d1.at < d2.at
             /\ d2.at - d1.at < rules[d1.rule].cooldown
             /\ d2.sawLast # NoTime
             /\ d2.sawLast >= d1.at) => ~d2.fired

\* C3: such a second evaluation has happened and did not fire, through
\* AlertRuleService.Evaluate, and the rule has one alert
C3_SecondEvaluationSuppressed ==
    \E t1, t2 \in TaskIds :
        \E d1 \in tasks[t1].seen, d2 \in tasks[t2].seen :
            /\ tasks[t2].kind = "evalHex"
            /\ d1.rule = d2.rule
            /\ d1.fired
            /\ d2.hit /\ ~d2.fired
            /\ d1.at < d2.at
            /\ d2.at - d1.at < rules[d1.rule].cooldown
            /\ d2.sawLast # NoTime /\ d2.sawLast >= d1.at
            /\ Cardinality({a \in DOMAIN alerts : alerts[a].rule = d1.rule}) = 1

\* ------------------------------------------- properties: last_triggered_at

C17_FailedStartIsStored ==
    [][\A t \in TaskIds :
          (/\ tasks[t].kind \in EvalKinds
           /\ tasks[t].pc \in {"exUpdate", "twUpdate"}
           /\ ~tasks[t].ok
           /\ tasks'[t].pc # tasks[t].pc) =>
              /\ \E a \in DOMAIN alerts' : alerts'[a].by = t
              /\ \E e \in DOMAIN executions' :
                    /\ executions'[e].by = t
                    /\ executions'[e].status = "failed"
                    /\ executions'[e].error = "failed to start workflow"
              /\ engine' = engine
              /\ tasks[t].src # NoId => tasks'[tasks[t].src].result = "ok"]_vars

\* C17: an ingest succeeded, its evaluation created an alert and went through
\* WorkflowService.Execute, the engine refused the start, the evaluation has
\* ended, and the execution row is still pending with no error
C17_FailedStartLeftPending ==
    \E t \in TaskIds, e \in DOMAIN executions :
        /\ tasks[t].kind = "evalHex" /\ tasks[t].pc = "done"
        /\ tasks[t].src # NoId /\ tasks[tasks[t].src].result = "ok"
        /\ \E a \in DOMAIN alerts : alerts[a].by = t
        /\ executions[e].by = t
        /\ \A i \in DOMAIN engine.started : engine.started[i].by # t
        /\ executions[e].status = "pending" /\ executions[e].error = ""

\* C18: when WorkflowService.Execute returns after the engine refused the
\* start, it returns the error, and the execution it saved as pending is stored
\* failed with the engine's error string
C18_ExecuteStoresEngineFailure ==
    [][\A t \in TaskIds :
          (/\ tasks[t].kind = "execute"
           /\ tasks[t].pc = "exUpdate"
           /\ ~tasks[t].ok
           /\ tasks'[t].pc = "done") =>
              /\ tasks'[t].result = "startErr"
              /\ \E e \in DOMAIN executions' :
                    /\ executions'[e].by = t
                    /\ executions'[e].status = "failed"
                    /\ executions'[e].error = "startErr"]_vars

\* C18: Execute has returned the engine's error to its caller, and the
\* execution it saved is pending with no error
C18_ExecuteFailedRowPending ==
    \E t \in TaskIds, e \in DOMAIN executions :
        /\ tasks[t].kind = "execute" /\ tasks[t].result = "startErr"
        /\ executions[e].by = t
        /\ executions[e].status = "pending" /\ executions[e].error = ""

\* ----------------------------------------------------- properties: cancel

\* C19: a Cancel of an execution that is not pending or running returns
\* ErrExecutionCannotCancel at once; the engine is not asked to cancel and
\* the stored executions are as they were
C19_RejectedCancelChangesNothing ==
    [][\A t \in DOMAIN tasks' \ DOMAIN tasks :
          (/\ tasks'[t].kind = "cancel"
           /\ executions[tasks'[t].target].status \notin {"pending", "running"}) =>
              /\ tasks'[t].pc = "done"
              /\ tasks'[t].result = "ErrExecutionCannotCancel"
              /\ engine' = engine
              /\ executions' = executions]_vars

\* C19: a Cancel of the failed execution was rejected; the engine has been
\* asked to cancel nothing and the execution is still failed
C19_CancelOfFailedRejected ==
    \E t \in TaskIds :
        /\ tasks[t].kind = "cancel" /\ tasks[t].result = "ErrExecutionCannotCancel"
        /\ executions[tasks[t].target].status = "failed"
        /\ executions[tasks[t].target].error = "failed to start workflow"
        /\ engine.cancelled = {}

\* C20: when a Cancel returns with success, the engine has been asked to
\* cancel the execution's workflow if the execution has an engine workflow
\* id, and the stored execution is cancelled with completed_at set
C20_CancelStoresCancelled ==
    [][\A t \in TaskIds :
          (/\ tasks[t].kind = "cancel" /\ tasks[t].pc = "cUpdate"
           /\ tasks'[t].pc = "done" /\ tasks'[t].result = "ok") =>
              LET e == tasks[t].target IN
              /\ executions[e].twid # NoTwid => executions[e].twid \in engine'.cancelled
              /\ executions'[e].status = "cancelled"
              /\ executions'[e].completedAt # NoTime]_vars

\* C20: a Cancel of the running execution "alert-1" succeeded, the engine was
\* asked to cancel it, the row is cancelled, and its completed_at is null
C20_CancelledWithoutCompletedAt ==
    \E t \in TaskIds :
        /\ tasks[t].kind = "cancel" /\ tasks[t].result = "ok"
        /\ executions[tasks[t].target].twid \in engine.cancelled
        /\ executions[tasks[t].target].status = "cancelled"
        /\ executions[tasks[t].target].completedAt = NoTime

\* ------------------------------------------------------- properties: bridge

\* C4: however often the bridge is entered for one alert, at most one
\* execution row carries the engine workflow id "alert-<alert id>"
C4_OneExecutionPerAlert ==
    \A a \in DOMAIN alerts :
        Cardinality({e \in DOMAIN executions :
                        executions[e].twid = <<"alert", a>>}) <= 1

\* C4: the bridge has returned twice for one alert and two execution rows
\* carry the alert's engine workflow id
C4_TwoExecutionsForOneAlert ==
    \E a \in DOMAIN alerts, t \in TaskIds :
        /\ tasks[t].kind = "bridge" /\ tasks[t].pc = "done"
        /\ tasks[alerts[a].by].pc = "done"
        /\ Cardinality({e \in DOMAIN executions :
                           executions[e].twid = <<"alert", a>>}) = 2

\* -------------------------------------------------- properties: tenant gate

\* C7: the binding in effect on the connection of a store operation is never
\* the binding another tenant's request made
C7_BindingNeverLeaks ==
    \A o \in storeOps : o.binding \in {NoTenant, o.tenant}

\* C7: a store operation of one tenant ran while a request of the other tenant
\* had made its binding and not yet used it
C7_SaveDuringForeignBinding ==
    \E o \in storeOps :
        /\ \E x \in o.during : x # o.tenant
        /\ o.binding \in {NoTenant, o.tenant}

\* ---------------------------------------------------- properties: ingestion

\* C8: once the evaluation goroutine of an ingest has finished, every
\* execution it created for a fired rule is stored as running or failed
C8_RemediationSettles ==
    \A e \in DOMAIN executions :
        tasks[executions[e].by].pc = "done" =>
            executions[e].status \in {"running", "failed"}

\* C8: the request was abandoned, its evaluation goroutine has finished and
\* started the workflow in the engine, and the execution is stored as pending
C8_StartedButPending ==
    \E e \in DOMAIN executions, i \in DOMAIN engine.started :
        LET t == executions[e].by IN
        /\ tasks[t].kind = "evalHex" /\ tasks[t].pc = "done"
        /\ tasks[t].src # NoId
        /\ tasks[tasks[t].src].cancelled
        /\ tasks[tasks[t].src].result = "ok"
        /\ engine.started[i].by = t
        /\ executions[e].status = "pending"

\* C9: an evaluation exists only for a request whose samples are stored, a
\* request reports success only when its samples are stored, and a request
\* whose save failed has no evaluation
C9_PersistBeforeEvaluate ==
    /\ \A t \in TaskIds :
          tasks[t].src # NoId => \E m \in metrics : m.src = tasks[t].src
    /\ \A t \in TaskIds :
          (tasks[t].kind \in {"ingest", "ingestBatch"} /\ tasks[t].result = "ok") =>
              \E m \in metrics : m.src = t
    /\ \A t \in TaskIds :
          (tasks[t].kind \in {"ingest", "ingestBatch"} /\ tasks[t].result = "error") =>
              /\ ~\E m \in metrics : m.src = t
              /\ tasks[t + 1].kind = "idle"

\* C9: one request was stored, reported success and had its evaluation run to
\* the end; another failed to save and has no evaluation
C9_OneSavedOneFailed ==
    \E t, u \in TaskIds :
        /\ tasks[t].kind = "ingestBatch" /\ tasks[t].result = "ok"
        /\ tasks[t + 1].kind = "evalHex" /\ tasks[t + 1].pc = "done"
        /\ tasks[t + 1].src = t
        /\ Cardinality({m \in metrics : m.src = t}) = 2
        /\ tasks[u].kind = "ingest" /\ tasks[u].result = "error"
        /\ tasks[u + 1].kind = "idle"
        /\ ~\E m \in metrics : m.src = u

\* ------------------------------------------- properties: metric definitions

\* C21: no two metric definitions share (tenant_id, name), and a create that
\* returns while a definition of its tenant and name is stored returns the
\* already-exists error and leaves the table as it was
C21_OneDefinitionPerName ==
    [][/\ \A d, e \in definitions' : (d.tenant = e.tenant /\ d.name = e.name) => d = e
       /\ \A t \in DOMAIN tasks' :
            (/\ tasks'[t].kind \in DefinitionKinds /\ tasks'[t].pc = "done"
             /\ tasks'[t].name # ""
             /\ (t \in DOMAIN tasks => tasks[t].pc # "done")
             /\ GetMetricDefinition(tasks'[t].tenant, tasks'[t].name) # {})
            => /\ tasks'[t].result = "ErrMetricDefinitionExists"
               /\ definitions' = definitions]_vars

\* C21: two creates of the same tenant and name have both returned success,
\* and the definition carries the values of the second
C21_ExistingDefinitionOverwritten ==
    \E t, u \in TaskIds :
        /\ t < u
        /\ \A x \in {t, u} :
              /\ tasks[x].kind \in DefinitionKinds /\ tasks[x].pc = "done"
              /\ tasks[x].result \in {"ok", "created"}
        /\ tasks[t].tenant = tasks[u].tenant /\ tasks[t].name = tasks[u].name
        /\ GetMetricDefinition(tasks[u].tenant, tasks[u].name)
              = {[tenant |-> tasks[u].tenant, name |-> tasks[u].name, by |-> u]}

\* ------------------------------------------------ properties: audit entries

\* the rules an evaluation fired whose remediation workflow belongs to
\* another tenant than the evaluation's
FiredAcrossTenants(t) ==
    {d.rule : d \in {x \in tasks[t].seen :
                        /\ x.fired
                        /\ rules[x.rule].workflow # NoWf
                        /\ workflows[rules[x.rule].workflow].tenant # tasks[t].tenant}}

\* C22: after an evaluation that fired a rule whose workflow belongs to
\* another tenant, the alert exists, the evaluation persisted no execution,
\* and the audit log of the rule's tenant has an entry about that workflow
C22_TenantMismatchAudited ==
    \A t \in TaskIds :
        (tasks[t].kind \in EvalKinds /\ tasks[t].pc = "done") =>
            \A r \in FiredAcrossTenants(t) :
                /\ \E a \in DOMAIN alerts : alerts[a].by = t /\ alerts[a].rule = r
                /\ \A e \in DOMAIN executions : executions[e].by # t
                /\ \E l \in auditLogs :
                      /\ l.tenant = tasks[t].tenant
                      /\ l.resourceType = "workflow"
                      /\ l.resource = rules[r].workflow

\* C22: the evaluator refused a workflow of another tenant, the alert exists,
\* no execution was persisted, and the audit log, which takes every insert,
\* is empty
C22_MismatchWithoutAuditEntry ==
    \E t \in TaskIds :
        /\ tasks[t].kind = "evalLegacy" /\ tasks[t].pc = "done"
        /\ FiredAcrossTenants(t) # {}
        /\ \E a \in DOMAIN alerts : alerts[a].by = t
        /\ executions = <<>>
        /\ auditUp /\ auditLogs = {}

\* C23: a step of a service that ends with logAudit, taken while the audit
\* table refuses inserts, still carries the operation's effect to the store
\* and still returns success: acknowledge and resolve, alert creation by the
\* evaluation, execute, and workflow create, update and delete
C23_AuditFailureIsNotFatal ==
    [][~auditUp =>
        /\ \A t \in DOMAIN tasks :
              /\ (tasks[t].pc = "aUpdate" /\ tasks'[t].pc = "done")
                    => /\ tasks'[t].result = "ok"
                       /\ alerts'[tasks[t].target].status = tasks[t].snap.status
              /\ (/\ tasks[t].kind = "evalHex" /\ tasks[t].pc = "loop"
                  /\ tasks[t].todo # <<>>
                  /\ CanTrigger(Head(tasks[t].todo), now)
                  /\ EvaluateThreshold(Head(tasks[t].todo), tasks[t].val).hit
                  /\ tasks'[t] # tasks[t])
                    => /\ tasks'[t].pc = "updLast"
                       /\ Len(alerts') = Len(alerts) + 1
                       /\ alerts'[Len(alerts')].by = t
              /\ (tasks[t].pc = "exUpdate" /\ tasks[t].ok /\ tasks'[t].pc # "exUpdate")
                    => /\ tasks'[t].result = "ok"
                       /\ engine' = engine
                       /\ DOMAIN executions' = DOMAIN executions
                       /\ \A e \in DOMAIN executions :
                             executions'[e].deleted = executions[e].deleted
        /\ \A t \in DOMAIN tasks' \ DOMAIN tasks :
              /\ (/\ tasks'[t].kind \in {"deleteWorkflow", "updateWorkflow"}
                  /\ workflows[tasks'[t].wf].status # "deleted")
                    => /\ tasks'[t].result = "ok"
                       /\ workflows'[tasks'[t].wf].status =
                             IF tasks'[t].kind = "deleteWorkflow" THEN "deleted"
                             ELSE tasks'[t].snap.status
              /\ tasks'[t].kind = "createWorkflow"
                    => /\ tasks'[t].result = "ok"
                       /\ tasks'[t].wf \in DOMAIN workflows' \ DOMAIN workflows
                       /\ workflows'[tasks'[t].wf].status = "draft"]_vars

\* C23: an alert was acknowledged by a call that returned success, and the
\* audit log has no entry of the acknowledgement
C23_AcknowledgedWithoutAuditEntry ==
    \E t \in TaskIds :
        /\ tasks[t].kind = "ack" /\ tasks[t].pc = "done" /\ tasks[t].result = "ok"
        /\ alerts[tasks[t].target].status = "acknowledged"
        /\ \A l \in auditLogs : l.event # "alert.acknowledged"

\* ------------------------------------------------ properties: rule matching

\* C24: whenever an evaluation creates an alert, the metric_name of the
\* alert's rule is the name of the sample the evaluation is working on
C24_AlertOnlyForOwnMetric ==
    [][\A t \in DOMAIN tasks :
          (/\ tasks[t].kind \in EvalKinds
           /\ Len(alerts') = Len(alerts) + 1
           /\ alerts'[Len(alerts')].by = t)
          => rules[alerts'[Len(alerts')].rule].metricName = tasks[t].name]_vars

\* C24: an evaluation of a sample named mem has created an alert from the
\* rule on metric cpu
C24_AlertFromOtherMetric ==
    \E t \in TaskIds, a \in DOMAIN alerts :
        /\ tasks[t].kind = "evalHex" /\ tasks[t].pc = "updLast"
        /\ tasks[t].name = "mem"
        /\ alerts[a].by = t /\ alerts[a].rule = tasks[t].rule
        /\ rules[tasks[t].rule].metricName = "cpu"

\* ---------------------------------------------- properties: racing evaluations

\* C25: when two evaluations have fired the same rule on the same reading of
\* its last_triggered_at, each of them has an alert row of its own
C25_RacingFiringsMakeTwoAlerts ==
    \A t, u \in TaskIds :
        t # u =>
            \A d \in tasks[t].seen, e \in tasks[u].seen :
                (d.fired /\ e.fired /\ d.rule = e.rule /\ d.sawLast = e.sawLast) =>
                    \E a, b \in DOMAIN alerts :
                        /\ a # b
                        /\ alerts[a].by = t /\ alerts[a].rule = d.rule
                        /\ alerts[b].by = u /\ alerts[b].rule = d.rule

\* C25: two evaluations of AlertRuleService have both created an alert for a
\* rule that neither has yet marked as triggered
C25_BothFiredBeforeEitherUpdate ==
    \E t, u \in TaskIds, a, b \in DOMAIN alerts :
        /\ t # u /\ a # b
        /\ tasks[t].kind = "evalHex" /\ tasks[u].kind = "evalHex"
        /\ tasks[t].pc = "updLast" /\ tasks[u].pc = "updLast"
        /\ tasks[t].rule = tasks[u].rule
        /\ rules[tasks[t].rule].last = NoTime
        /\ alerts[a].by = t /\ alerts[a].rule = tasks[t].rule
        /\ alerts[b].by = u /\ alerts[b].rule = tasks[u].rule

\* -------------------------------------------- properties: cooldown boundary

\* C26: a rule whose threshold predicate held for the sample was fired by the
\* evaluation exactly when its last_triggered_at, as the evaluation read it,
\* was null or at least cooldown_seconds old
C26_FiresExactlyAfterCooldown ==
    \A t \in TaskIds :
        \A d \in tasks[t].seen :
            d.hit =>
                (d.fired <=> \/ d.sawLast = NoTime
                             \/ d.at - d.sawLast >= rules[d.rule].cooldown)

\* C26: the evaluator left out a rule whose threshold predicate held, exactly
\* cooldown_seconds after the rule had last triggered
C26_SkippedAtExactCooldown ==
    \E t \in TaskIds :
        /\ tasks[t].kind = "evalLegacy"
        /\ \E d \in tasks[t].seen :
              /\ d.hit /\ ~d.fired
              /\ d.sawLast # NoTime
              /\ d.at - d.sawLast = rules[d.rule].cooldown

\* --------------------------------------------- properties: workflow input

\* the rules whose trigger_input_template has a string that does not render
UnrenderableRules ==
    {r \in RuleIds : /\ rules[r].template.json
                     /\ renderTemplate(rules[r].template.text).err}

\* C27: the engine holds no workflow that the bridge started for a rule
\* whose trigger_input_template does not render, and an execution the bridge
\* stored for such a rule is failed once the bridge has returned
C27_UnrenderedInputNeverStarted ==
    /\ \A i \in DOMAIN engine.started :
          engine.started[i].id[1] = "alert" =>
              alerts[engine.started[i].id[2]].rule \notin UnrenderableRules
    /\ \A e \in DOMAIN executions :
          (/\ executions[e].triggeredBy[1] = "alert_rule"
           /\ executions[e].triggeredBy[2] \in UnrenderableRules
           /\ tasks[executions[e].by].pc = "done")
          => executions[e].status = "failed"

\* C27: the bridge has returned for a rule whose template does not render,
\* the engine runs the workflow with the text of the template as its input,
\* and the execution is running
C27_StartedWithTemplateText ==
    \E i \in DOMAIN engine.started, e \in DOMAIN executions :
        /\ engine.started[i].id = executions[e].twid
        /\ executions[e].triggeredBy[1] = "alert_rule"
        /\ executions[e].triggeredBy[2] \in UnrenderableRules
        /\ engine.started[i].input = rules[executions[e].triggeredBy[2]].template.text
        /\ tasks[executions[e].by].pc = "done"
        /\ executions[e].status = "running"

\* ------------------------------------------ properties: failures in the loop

\* C28: an evaluation ends only when its list of candidate rules is used up
\* and then reports no failure, and it drops a rule from the list only one at
\* a time and with a decision recorded for it, whatever failed on the way
C28_FailureDoesNotAbortEvaluation ==
    [][\A t \in TaskIds :
          tasks[t].kind \in EvalKinds /\ tasks[t].pc # "find" =>
             /\ (tasks'[t].pc = "done" /\ tasks[t].pc # "done") =>
                   /\ tasks[t].todo = <<>>
                   /\ tasks'[t].result = "ok"
             /\ (tasks'[t].pc # "done" /\ tasks'[t].todo # tasks[t].todo) =>
                   /\ tasks[t].todo # <<>>
                   /\ tasks'[t].todo = Tail(tasks[t].todo)
                   /\ \E d \in tasks'[t].seen : d.rule = Head(tasks[t].todo).id]_vars

\* C28: the store refused the alert of the first candidate rule, and the
\* evaluation has gone on and created the alert of the remaining rule
C28_NextRuleFiredAfterFailure ==
    \E t \in TaskIds :
        /\ tasks[t].kind \in EvalKinds
        /\ Len(tasks[t].todo) = 1
        /\ tasks[t].rule = Head(tasks[t].todo).id
        /\ \E a \in DOMAIN alerts : alerts[a].by = t /\ alerts[a].rule = tasks[t].rule
        /\ \E d \in tasks[t].seen :
              /\ d.rule # tasks[t].rule
              /\ d.hit /\ ~d.fired
              /\ <<"CreateAlert", d.rule>> \in storeFaults

\* --------------------------------------- properties: the start of a workflow

\* C29: when an evaluator has the engine start a workflow for a fired rule,
\* an execution of that alert is stored as pending with triggered_by
\* "alert_rule:<rule>" and engine workflow id "alert-<alert>", and the engine
\* is given that same id
C29_StartFollowsPendingRecord ==
    [][\A i \in DOMAIN engine'.started \ DOMAIN engine.started :
          LET start == engine'.started[i] IN
          tasks[start.by].kind \in EvalKinds \cup {"bridge"} =>
             \E e \in DOMAIN executions :
                /\ executions[e].by = start.by
                /\ executions[e].status = "pending"
                /\ executions[e].triggeredBy = <<"alert_rule", tasks[start.by].rule>>
                /\ executions[e].twid = <<"alert", tasks[start.by].alert>>
                /\ start.id = executions[e].twid]_vars

\* C29: AlertRuleService.Evaluate has had the engine start the workflow of a
\* fired rule under the id "workflow-<id>-<version>", and the execution stored
\* for it names a user as its trigger and has no engine workflow id
C29_StartedUnderWorkflowId ==
    \E i \in DOMAIN engine.started, e \in DOMAIN executions :
        /\ tasks[engine.started[i].by].kind = "evalHex"
        /\ engine.started[i].id[1] = "workflow"
        /\ executions[e].by = engine.started[i].by
        /\ executions[e].triggeredBy[1] = "user"
        /\ executions[e].twid = NoTwid

C31_StoreOpsRunUnderBinding ==
    \A o \in storeOps : o.binding = o.tenant

\* C31: a request made its binding, and its save ran on a connection that
\* carried no binding at all, as every connection of the pool still does
C31_SaveRanUnbound ==
    /\ \E o \in storeOps : o.binding = NoTenant /\ o.tenant # NoTenant
    /\ \E t \in TaskIds : tasks[t].kind = "ingest" /\ tasks[t].pc \in {"spawn", "done"}
    /\ \A c \in Conns : connBinding[c] = NoTenant

\* ------------------------------------------------- properties: operators

\* the relation each of the six operator names stands for
InRelation(operator, value, threshold) ==
    CASE operator = "gt"  -> value > threshold
      [] operator = "gte" -> value >= threshold
      [] operator = "lt"  -> value < threshold
      [] operator = "lte" -> value <= threshold
      [] operator = "eq"  -> value = threshold
      [] operator = "ne"  -> value # threshold
      [] OTHER -> FALSE

\* C32: an evaluator that looks at a rule whose operator is one of gt, gte,
\* lt, lte, eq, ne fires it exactly when the value stands in that relation
\* to the threshold
C32_FiresExactlyInRelation ==
    [][\A t \in TaskIds :
          (/\ tasks[t].kind \in EvalKinds
           /\ tasks[t].pc = "loop"
           /\ tasks[t].todo # <<>>
           /\ tasks'[t] # tasks[t]
           /\ \/ tasks[t].kind = "evalLegacy"
              \/ /\ tasks[t].kind = "evalHex"
                 /\ Head(tasks[t].todo).conditionType = "threshold"
           /\ Head(tasks[t].todo).operator \in {"gt", "gte", "lt", "lte", "eq", "ne"})
          => LET rule == Head(tasks[t].todo) IN
             (tasks'[t].pc = "updLast")
                <=> InRelation(rule.operator, tasks[t].val, rule.threshold)]_vars

\* C32: AlertRuleService.Evaluate has gone through a threshold rule with
\* operator ne and a value that differs from the threshold, and no alert
\* was created
C32_NeRuleDidNotFire ==
    \E t \in TaskIds, r \in RuleIds :
        /\ tasks[t].kind = "evalHex"
        /\ tasks[t].pc = "loop" /\ tasks[t].todo = <<>>
        /\ rules[r].conditionType = "threshold"
        /\ rules[r].operator = "ne"
        /\ tasks[t].val # rules[r].threshold
        /\ \E d \in tasks[t].seen : d.rule = r /\ ~d.fired
        /\ alerts = <<>>

\* ---------------------------------------------------- properties: titles

\* C33: the title of every alert an evaluator created is the title template
\* of its rule as rendered, and the template itself only when it does not
\* render
C33_TitleIsRenderedTemplate ==
    \A a \in DOMAIN alerts :
        LET rule == rules[alerts[a].rule] IN
        alerts[a].title = IF renderTemplate(rule.titleTemplate).err
                          THEN rule.titleTemplate
                          ELSE renderTemplate(rule.titleTemplate).out

\* C33: AlertRuleService.Evaluate created an alert for a rule whose title
\* template is "CPU ${value}%", and the title of the alert is that text
C33_TitleIsRawTemplate ==
    \E a \in DOMAIN alerts :
        /\ tasks[alerts[a].by].kind = "evalHex"
        /\ rules[alerts[a].rule].titleTemplate = <<"lit", "var">>
        /\ ~renderTemplate(rules[alerts[a].rule].titleTemplate).err
        /\ alerts[a].title = <<"lit", "var">>

\* ------------------------------------------ properties: batch evaluation

\* C34: the goroutine of a batch ingest is given each distinct name of the
\* batch once, with the value of the last sample of that name; it evaluates
\* only what it takes from the head of that list, one entry per evaluation,
\* and ends when the list is used up
C34_OncePerNameWithLastValue ==
    [][\A t \in TaskIds :
          (tasks[t].kind = "ingestBatch" /\ tasks[t].pc = "spawn"
              /\ tasks'[t].pc = "done")
          => LET g == t + 1
                 list == tasks'[g].queue
             IN /\ tasks'[g].kind = "evalHex"
                /\ {list[i].name : i \in DOMAIN list} = {m.name : m \in StoredOf(t)}
                /\ \A i, k \in DOMAIN list : list[i].name = list[k].name => i = k
                /\ \A i \in DOMAIN list :
                      LET rows == {m \in StoredOf(t) : m.name = list[i].name}
                          last == CHOOSE m \in rows : \A x \in rows : x.idx <= m.idx
                      IN list[i].val = last.val]_vars
    /\ [][\A g \in TaskIds :
             (tasks[g].kind = "evalHex" /\ tasks[g].src # NoId /\ tasks'[g] # tasks[g])
             => /\ tasks'[g].queue # tasks[g].queue =>
                    /\ tasks[g].pc = "find" /\ tasks'[g].pc = "loop"
                    /\ tasks'[g].queue = Tail(tasks[g].queue)
                    /\ tasks'[g].name = Head(tasks[g].queue).name
                    /\ tasks'[g].val = Head(tasks[g].queue).val
                /\ (tasks[g].pc = "find" /\ tasks'[g].pc = "loop") =>
                    tasks'[g].queue # tasks[g].queue
                /\ tasks'[g].pc = "done" => tasks[g].queue = <<>>
                /\ (tasks[g].pc # "find" /\ tasks'[g].pc # "done") =>
                    /\ tasks'[g].name = tasks[g].name
                    /\ tasks'[g].val = tasks[g].val]_vars

\* C34: a batch held two samples of one name with different values, and its
\* goroutine is evaluating that name with the value of the second sample and
\* has nothing left to evaluate
C34_EvaluatingLastOfTwo ==
    \E g \in TaskIds :
        /\ tasks[g].kind = "evalHex" /\ tasks[g].src # NoId
        /\ tasks[tasks[g].src].kind = "ingestBatch"
        /\ tasks[g].pc = "loop" /\ tasks[g].queue = <<>>
        /\ \E m1, m2 \in StoredOf(tasks[g].src) :
              /\ m1.name = tasks[g].name /\ m2.name = tasks[g].name
              /\ m1.idx < m2.idx
              /\ m1.val # m2.val
              /\ tasks[g].val = m2.val

\* ------------------------------------------------ properties: entrypoint

\* C35: a workflow that an evaluator had the engine start runs at the dynamic
\* entrypoint when its definition holds at least one step, and at the static
\* entrypoint otherwise
C35_DynamicExactlyWithSteps ==
    \A i \in DOMAIN engine.started :
        tasks[engine.started[i].by].kind \in EvalKinds =>
            engine.started[i].entry =
                IF HasDynamicDefinition(workflows[engine.started[i].wf].definition)
                THEN "DynamicWorkflow"
                ELSE "ProcessWorkflow"

\* C35: the bridge of Evaluator.EvaluateMetric started a workflow whose
\* definition has an empty steps array at the dynamic entrypoint
C35_EmptyStepsStartedDynamic ==
    \E i \in DOMAIN engine.started :
        /\ tasks[engine.started[i].by].kind = "evalLegacy"
        /\ workflows[engine.started[i].wf].definition = "empty"
        /\ engine.started[i].entry = "DynamicWorkflow"

\* ------------------------------------- properties: cooldown and the alert

\* C36: whenever the last_triggered_at of a rule changes, the evaluation
\* that writes it has stored an alert for that rule before; a rule that has
\* a last_triggered_at has an alert
C36_CooldownOnlyAfterAlert ==
    [][\A r \in DOMAIN rules :
          rules'[r].last # rules[r].last =>
             \E t \in TaskIds, a \in DOMAIN alerts :
                /\ tasks[t].kind \in EvalKinds
                /\ tasks[t].pc = "updLast" /\ tasks'[t].pc # "updLast"
                /\ tasks[t].rule = r
                /\ alerts[a].rule = r /\ alerts[a].by = t
                /\ rules'[r].last = now]_vars

\* C36: an evaluation that could not store the alert of one rule has ended;
\* that rule has no alert and no last_triggered_at, the other rule has both
C36_FailedRuleNotInCooldown ==
    \E t \in TaskIds, r1, r2 \in DOMAIN rules :
        /\ tasks[t].kind \in EvalKinds /\ tasks[t].pc = "done"
        /\ <<"CreateAlert", r1>> \in storeFaults
        /\ \E d \in tasks[t].seen : d.rule = r1 /\ d.hit /\ ~d.fired
        /\ rules[r1].last = NoTime
        /\ \A a \in DOMAIN alerts : alerts[a].rule # r1
        /\ r2 # r1
        /\ rules[r2].last # NoTime
        /\ \E a \in DOMAIN alerts : alerts[a].rule = r2 /\ alerts[a].by = t

\* ------------------------------------- properties: cancel and the engine

\* C37: an execution stored as running has its engine workflow id stored with
\* it, and an execution stored as cancelled has no run that the engine took
\* from the call that created it and was never asked to cancel
C37_CancelledAfterEngineCancel ==
    /\ \A e \in DOMAIN executions :
          executions[e].status = "running" => executions[e].twid # NoTwid
    /\ \A e \in DOMAIN executions, i \in DOMAIN engine.started :
          (/\ executions[e].status = "cancelled"
           /\ engine.started[i].by = executions[e].by)
          => engine.started[i].id \in engine.cancelled

\* C37: the engine runs the workflow that WorkflowService.Execute started,
\* the execution of that call is stored without an engine workflow id, and a
\* Cancel has marked it cancelled without asking the engine
C37_CancelledWhileEngineRuns ==
    \E e \in DOMAIN executions, i \in DOMAIN engine.started, c \in TaskIds :
        /\ executions[e].status = "cancelled"
        /\ executions[e].twid = NoTwid
        /\ engine.started[i].by = executions[e].by
        /\ engine.cancelled = {}
        /\ tasks[c].kind = "cancel" /\ tasks[c].target = e
        /\ tasks[c].pc = "done" /\ tasks[c].result = "ok"

\* C38: no two runs that the engine took from calls of WorkflowService.Execute
\* have the same engine workflow id
C38_OneEngineIdPerExecution ==
    \A i, j \in DOMAIN engine.started :
        (/\ i # j
         /\ tasks[engine.started[i].by].kind = "execute"
         /\ tasks[engine.started[j].by].kind = "execute")
        => engine.started[i].id # engine.started[j].id

\* C38: two calls of WorkflowService.Execute for the same workflow at the
\* same version have each stored an execution, and the engine took both
\* under one engine workflow id
C38_TwoExecutionsOneEngineId ==
    \E i, j \in DOMAIN engine.started, e1, e2 \in DOMAIN executions :
        /\ i # j /\ e1 # e2
        /\ executions[e1].by = engine.started[i].by
        /\ executions[e2].by = engine.started[j].by
        /\ tasks[executions[e1].by].kind = "execute"
        /\ tasks[executions[e2].by].kind = "execute"
        /\ engine.started[i].wf = engine.started[j].wf
        /\ engine.started[i].id = engine.started[j].id

\* ------------------------------------------- properties: active workflows

\* C39: every workflow stored as active has a definition that parses and
\* holds at least one step
C39_ActiveHasSteps ==
    \A w \in DOMAIN workflows :
        workflows[w].status = "active" =>
            /\ ~ParseDefinition(workflows[w].definition).err
            /\ ParseDefinition(workflows[w].definition).steps > 0

\* C39: WorkflowService.Update with status active has returned for a workflow
\* that was a draft without steps, and the workflow is stored as active
C39_ActiveWithoutSteps ==
    \E t \in TaskIds :
        /\ tasks[t].kind = "updateWorkflow"
        /\ tasks[t].pc = "done" /\ tasks[t].result = "ok"
        /\ tasks[t].wf = "w3"
        /\ workflows["w3"].status = "active"
        /\ workflows["w3"].definition = "none"
        /\ workflows["w3"].version = 2

\* ------------------------------------- properties: a failed engine cancel

\* C40: when a Cancel call leaves its engine request and the engine has not
\* taken the cancellation, the call ends with the engine's error and no
\* stored execution changes
C40_EngineCancelErrorChangesNothing ==
    [][\A t \in TaskIds :
          (/\ tasks[t].kind = "cancel" /\ tasks[t].pc = "cEngine"
           /\ tasks'[t].pc # "cEngine"
           /\ tasks[t].snap.twid \notin engine'.cancelled)
          => /\ tasks'[t].pc = "done"
             /\ tasks'[t].result = "cancelErr"
             /\ executions' = executions]_vars

\* C40: a Cancel call has ended with the engine's error, the engine has not
\* cancelled the run, and the execution is still stored as running
C40_CancelFailedStillRunning ==
    \E t \in TaskIds :
        /\ tasks[t].kind = "cancel"
        /\ tasks[t].pc = "done" /\ tasks[t].result = "cancelErr"
        /\ executions[tasks[t].target].twid # NoTwid
        /\ executions[tasks[t].target].twid \notin engine.cancelled
        /\ executions[tasks[t].target].status = "running"

====
